---- MODULE Spec2Model ----
(***************************************************************************)
(* State-machine model of the dictation core of performlikemj/transcription *)
(*   - AudioManager   (audio_manager.py): capture-thread lifecycle          *)
(*   - ASRService     (asr_service.py):   single-worker request queue and   *)
(*                                        the audio accumulation buffer     *)
(*   - DictationApp   (main.py):          the dictation lifecycle on the    *)
(*                                        main thread's event queue         *)
(* Every thread is a program counter; one action per atomic step of the    *)
(* Python code (a statement, or a block run under AudioManager.lock).       *)
(***************************************************************************)
EXTENDS Integers, Sequences, FiniteSets, TLC

\* ------------------------------------------------------------------ bounds
\* capture threads that may be spawned in one behaviour
MaxThreads == 2
\* start_recording()/stop_recording() calls the control thread may issue
MaxCalls == 4
\* transcription requests that may be submitted
MaxRequests == 2
\* largest audio buffer length (samples) of a request; 0 is the empty buffer
MaxLen == 1

VARIABLES
    \* ---- AudioManager (audio_manager.py:21-32)
    is_recording,            \* self._is_recording
    recording_thread,        \* self._recording_thread: 0 is None, else a thread id
    recording_active_event,  \* self._recording_active_event.is_set()
    stream_ready_event,      \* self._stream_ready_event.is_set()
    last_error,              \* self._last_error
    lock,                    \* holder of self.lock: "free" or "ctl"
    thr,                     \* capture threads: id -> [pc, stream, opened, erred, openfail, readerr]
    ctl,                     \* the control thread inside start_recording/stop_recording
    \* ---- ASRService (asr_service.py:28-40)
    worker_pc,               \* position of the _asr_worker_loop thread
    is_model_loaded,         \* self.is_model_loaded
    asr_model,               \* self.asr_model: "None" or "model"
    request_queue,           \* self.request_queue (FIFO of requests / the sentinel)
    cur,                     \* the worker's locals: request, transcribed_text, error
    callbacks,               \* every result_callback invocation so far, in order
    reqlog,                  \* per submitted request: what the worker did for it
    shutdown_called,         \* shutdown() has run
    env,                     \* what the environment supplies: model file, decoder kind
    \* ---- ASRService accumulation buffer (asr_service.py:213-247)
    buffer,                  \* self._buffer: the chunks appended since the last drain
    drain,                   \* a thread inside get_buffered_audio_and_clear: pc, full_audio
    handed,                  \* the chunks returned by the drains so far, in order
    accepted,                \* the chunks process_audio_chunk has appended so far
    \* ---- DictationApp (main.py:416-518), HotkeyManager, CorrectionWindow
    dictation_active,        \* self.dictation_active
    is_transcribing,         \* self.is_transcribing
    waiting_for_correction,  \* self._waiting_for_correction
    asr_model_status,        \* self.asr_model_status
    model_loaded_handled,    \* self._model_loaded_handled
    last_sound_time,         \* self._last_sound_time, as the time elapsed since it
    auto_stop_pending,       \* self._auto_stop_pending
    last_transcribed_text,   \* self._last_transcribed_text
    pending_transcription_text, \* self._pending_transcription_text
    hotkey_active,           \* self.hotkey_manager.hotkey_active
    hk_pc,                   \* the key-listener thread inside HotkeyManager.on_press
    hotkey_pressed,          \* self.hotkey_manager._hotkey._pressed: keys held down
    model_load_signals,      \* history: MODEL_LOADED_SUCCESSFULLY signals delivered
    main_queue,              \* AppHelper.callAfter: calls waiting for the main thread
    timers,                  \* self.active_timers: started zero-delay timers, with payload
    review,                  \* CorrectionWindow: _is_visible, _original_text
    history,                 \* TranscriptionHistory._entries, most recent first
    last_inserted_text,      \* the text TextInsertionService typed last (None: none yet)
    alert,                   \* title of the rumps.alert raised by the last step
    activations,             \* hotkey presses that asked to activate so far
    auto_stops,              \* auto-stops triggered (line 666) since the last activation
    frontmost,               \* NSWorkspace.frontmostApplication(): the app in front
    dictation_source_app,    \* self._dictation_source_app ("None": never set)
    \* ---- LiveTranscriptionService (live_transcription_service.py:41-52)
    is_active,               \* self._is_active
    stop_event,              \* self._stop_event.is_set()
    preview_thread,          \* self._preview_thread: a thread id, 0 for None
    preview_pc               \* preview threads: id -> position in _preview_loop

audio_vars == <<is_recording, recording_thread, recording_active_event,
                stream_ready_event, last_error, lock, thr, ctl>>
asr_vars == <<worker_pc, is_model_loaded, asr_model, request_queue, cur,
              callbacks, reqlog, shutdown_called, env>>
buf_vars == <<buffer, drain, handed, accepted>>
app_vars == <<dictation_active, is_transcribing, waiting_for_correction,
              asr_model_status, model_loaded_handled, last_sound_time,
              auto_stop_pending, last_transcribed_text, pending_transcription_text,
              hotkey_active, hk_pc, hotkey_pressed, main_queue, timers, review,
              history, last_inserted_text, model_load_signals,
              alert, activations, auto_stops, frontmost, dictation_source_app>>
live_vars == <<is_active, stop_event, preview_thread, preview_pc>>
vars == <<audio_vars, asr_vars, buf_vars, app_vars, live_vars>>

Threads == 1..MaxThreads

\* ------------------------------------------------------------ AudioManager

\* threading.Thread.is_alive() of capture thread t (0 is "no thread object")
IsAlive(t) == t # 0 /\ thr[t].pc \notin {"unborn", "done"}

\* positions of _recording_loop inside the `while` loop of lines 59-85
ReadLoopPcs == {"loop", "read", "recheck", "callback", "pae_set", "pae_overflow_set",
                "pae_branch", "pae_clear", "exc_set", "exc_clear"}

NoThread == [pc |-> "unborn", stream |-> "none", opened |-> FALSE,
             erred |-> FALSE, openfail |-> FALSE, readerr |-> FALSE]

IdleCtl == [pc |-> "idle", op |-> "none", ret |-> "none", why |-> "none",
            sess |-> 0, join |-> 0, timedout |-> FALSE, calls |-> 0]

AudioInit ==
    /\ is_recording = FALSE
    /\ recording_thread = 0
    /\ recording_active_event = FALSE
    /\ stream_ready_event = FALSE
    /\ last_error = "None"
    /\ lock = "free"
    /\ thr = [t \in Threads |-> NoThread]
    /\ ctl = IdleCtl

\* the control thread returns from the current call
Return(c, r, w) == [c EXCEPT !.pc = "returned", !.ret = r, !.why = w]

\* ---- the control thread calls into the manager (main.py:906, 956, 973, 1261)
CallStart ==
    /\ ctl.pc \in {"idle", "returned"}
    /\ ctl.calls < MaxCalls
    /\ \E t \in Threads : thr[t].pc = "unborn"
    /\ ctl' = [ctl EXCEPT !.pc = "start_check", !.op = "start", !.ret = "none",
                          !.why = "none", !.sess = 0, !.join = 0,
                          !.timedout = FALSE, !.calls = @ + 1]
    /\ UNCHANGED <<is_recording, recording_thread, recording_active_event,
                   stream_ready_event, last_error, lock, thr>>

CallStop ==
    /\ ctl.pc \in {"idle", "returned"}
    /\ ctl.calls < MaxCalls
    /\ ctl' = [ctl EXCEPT !.pc = "stop_check", !.op = "stop", !.ret = "none",
                          !.why = "none", !.sess = 0, !.join = 0,
                          !.timedout = FALSE, !.calls = @ + 1]
    /\ UNCHANGED <<is_recording, recording_thread, recording_active_event,
                   stream_ready_event, last_error, lock, thr>>

\* ---- start_recording, lines 116-122: the busy guard, under the lock
StartCheck ==
    /\ ctl.pc = "start_check"
    /\ lock = "free"
    /\ IF is_recording \/ IsAlive(recording_thread)
         THEN /\ ctl' = Return(ctl, "False", "busy")
              /\ UNCHANGED lock
         ELSE /\ ctl' = [ctl EXCEPT !.pc = "start_set_event"]
              /\ lock' = "ctl"
    /\ UNCHANGED <<is_recording, recording_thread, recording_active_event,
                   stream_ready_event, last_error, thr>>

\* line 125
StartSetEvent ==
    /\ ctl.pc = "start_set_event"
    /\ recording_active_event' = TRUE
    /\ ctl' = [ctl EXCEPT !.pc = "start_set_flag"]
    /\ UNCHANGED <<is_recording, recording_thread, stream_ready_event, last_error,
                   lock, thr>>

\* line 126
StartSetFlag ==
    /\ ctl.pc = "start_set_flag"
    /\ is_recording' = TRUE
    /\ ctl' = [ctl EXCEPT !.pc = "start_clear_error"]
    /\ UNCHANGED <<recording_thread, recording_active_event, stream_ready_event,
                   last_error, lock, thr>>

\* line 127
StartClearError ==
    /\ ctl.pc = "start_clear_error"
    /\ last_error' = "None"
    /\ ctl' = [ctl EXCEPT !.pc = "start_clear_ready"]
    /\ UNCHANGED <<is_recording, recording_thread, recording_active_event,
                   stream_ready_event, lock, thr>>

\* line 128
StartClearReady ==
    /\ ctl.pc = "start_clear_ready"
    /\ stream_ready_event' = FALSE
    /\ ctl' = [ctl EXCEPT !.pc = "start_spawn"]
    /\ UNCHANGED <<is_recording, recording_thread, recording_active_event,
                   last_error, lock, thr>>

\* lines 131-134: a new capture thread is created and started; the lock is released
StartSpawn ==
    /\ ctl.pc = "start_spawn"
    /\ \E t \in Threads :
         /\ thr[t].pc = "unborn"
         /\ \A u \in Threads : u < t => thr[u].pc # "unborn"
         /\ thr' = [thr EXCEPT ![t].pc = "init"]
         /\ recording_thread' = t
         /\ ctl' = [ctl EXCEPT !.pc = "start_wait", !.sess = t]
    /\ lock' = "free"
    /\ UNCHANGED <<is_recording, recording_active_event, stream_ready_event, last_error>>

\* line 136: _stream_ready_event.wait(timeout=2.0) returns True once the event is
\* set, and False when the 2 s pass with the event still clear
StartWait ==
    /\ ctl.pc = "start_wait"
    /\ IF stream_ready_event
         THEN ctl' = [ctl EXCEPT !.pc = "start_check_error"]
         ELSE ctl' = [ctl EXCEPT !.pc = "start_timeout_clear", !.timedout = TRUE]
    /\ UNCHANGED <<is_recording, recording_thread, recording_active_event,
                   stream_ready_event, last_error, lock, thr>>

\* line 138
StartTimeoutClear ==
    /\ ctl.pc = "start_timeout_clear"
    /\ recording_active_event' = FALSE
    /\ ctl' = [ctl EXCEPT !.pc = "start_timeout_lock"]
    /\ UNCHANGED <<is_recording, recording_thread, stream_ready_event, last_error,
                   lock, thr>>

\* lines 139-143
StartTimeoutLock ==
    /\ ctl.pc = "start_timeout_lock"
    /\ lock = "free"
    /\ is_recording' = FALSE
    /\ recording_thread' = IF recording_thread # 0 /\ ~IsAlive(recording_thread)
                             THEN 0 ELSE recording_thread
    /\ ctl' = Return(ctl, "False", "timeout")
    /\ UNCHANGED <<recording_active_event, stream_ready_event, last_error, lock, thr>>

\* lines 145 and 154: the error slot is read; with no error the call returns True
StartCheckError ==
    /\ ctl.pc = "start_check_error"
    /\ IF last_error # "None"
         THEN ctl' = [ctl EXCEPT !.pc = "start_error_clear"]
         ELSE ctl' = Return(ctl, "True", "ok")
    /\ UNCHANGED <<is_recording, recording_thread, recording_active_event,
                   stream_ready_event, last_error, lock, thr>>

\* line 147
StartErrorClear ==
    /\ ctl.pc = "start_error_clear"
    /\ recording_active_event' = FALSE
    /\ ctl' = [ctl EXCEPT !.pc = "start_error_lock"]
    /\ UNCHANGED <<is_recording, recording_thread, stream_ready_event, last_error,
                   lock, thr>>

\* lines 148-152
StartErrorLock ==
    /\ ctl.pc = "start_error_lock"
    /\ lock = "free"
    /\ is_recording' = FALSE
    /\ recording_thread' = IF recording_thread # 0 /\ ~IsAlive(recording_thread)
                             THEN 0 ELSE recording_thread
    /\ ctl' = Return(ctl, "False", "error")
    /\ UNCHANGED <<recording_active_event, stream_ready_event, last_error, lock, thr>>

\* ---- stop_recording, lines 160-169: nothing to stop
StopCheck ==
    /\ ctl.pc = "stop_check"
    /\ IF ~recording_active_event /\ ~is_recording
         THEN /\ lock = "free"
              /\ recording_thread' = IF recording_thread # 0 /\ ~IsAlive(recording_thread)
                                       THEN 0 ELSE recording_thread
              /\ ctl' = Return(ctl, "None", "noop")
         ELSE /\ ctl' = [ctl EXCEPT !.pc = "stop_clear"]
              /\ UNCHANGED recording_thread
    /\ UNCHANGED <<is_recording, recording_active_event, stream_ready_event,
                   last_error, lock, thr>>

\* line 172
StopClear ==
    /\ ctl.pc = "stop_clear"
    /\ recording_active_event' = FALSE
    /\ ctl' = [ctl EXCEPT !.pc = "stop_pick"]
    /\ UNCHANGED <<is_recording, recording_thread, stream_ready_event, last_error,
                   lock, thr>>

\* lines 174-179: thread_to_join is read under the lock
StopPick ==
    /\ ctl.pc = "stop_pick"
    /\ lock = "free"
    /\ ctl' = [ctl EXCEPT !.pc = "stop_join", !.join = recording_thread]
    /\ UNCHANGED <<is_recording, recording_thread, recording_active_event,
                   stream_ready_event, last_error, lock, thr>>

\* lines 181-189: join(timeout=3.0) returns when the thread has finished, or after
\* 3 s with the thread still alive (a warning is logged, nothing is raised)
StopJoin ==
    /\ ctl.pc = "stop_join"
    /\ ctl' = [ctl EXCEPT !.pc = "stop_final", !.timedout = IsAlive(ctl.join)]
    /\ UNCHANGED <<is_recording, recording_thread, recording_active_event,
                   stream_ready_event, last_error, lock, thr>>

\* lines 192-195: final state consolidation under the lock
StopFinalMutKeepFlag ==
    /\ ctl.pc = "stop_final"
    /\ lock = "free"
    /\ recording_thread' = 0
    /\ ctl' = Return(ctl, "None", "stopped")
    /\ UNCHANGED <<is_recording, recording_active_event, stream_ready_event,
                   last_error, lock, thr>>

StopFinal ==
    /\ ctl.pc = "stop_final"
    /\ lock = "free"
    /\ is_recording' = FALSE
    /\ recording_thread' = 0
    /\ ctl' = Return(ctl, "None", "stopped")
    /\ UNCHANGED <<recording_active_event, stream_ready_event, last_error, lock, thr>>

\* ---- _recording_loop of capture thread t
AudioFrame == UNCHANGED <<is_recording, recording_thread, recording_active_event,
                          stream_ready_event, last_error, lock, ctl>>

\* lines 38-47: the device list is refreshed; sd._terminate()/sd._initialize() may raise
LoopInit(t) ==
    /\ thr[t].pc = "init"
    /\ \/ thr' = [thr EXCEPT ![t].pc = "open"]
       \/ thr' = [thr EXCEPT ![t].pc = "outer_set"]
    /\ AudioFrame

\* lines 50-55: sd.InputStream(...) is opened, or raises
LoopOpen(t) ==
    /\ thr[t].pc = "open"
    /\ \/ thr' = [thr EXCEPT ![t].pc = "set_ready", ![t].stream = "open",
                             ![t].opened = TRUE]
       \/ thr' = [thr EXCEPT ![t].pc = "outer_set", ![t].openfail = TRUE]
    /\ AudioFrame

\* line 56
LoopSetReady(t) ==
    /\ thr[t].pc = "set_ready"
    /\ stream_ready_event' = TRUE
    /\ thr' = [thr EXCEPT ![t].pc = "loop"]
    /\ UNCHANGED <<is_recording, recording_thread, recording_active_event,
                   last_error, lock, ctl>>

\* line 59: while self._recording_active_event.is_set()
LoopTest(t) ==
    /\ thr[t].pc = "loop"
    /\ thr' = [thr EXCEPT ![t].pc = IF recording_active_event THEN "read" ELSE "with_exit"]
    /\ AudioFrame

\* line 61: stream.read() returns a chunk, or raises PortAudioError ('Input
\* overflowed' or another), or another exception
LoopRead(t) ==
    /\ thr[t].pc = "read"
    /\ \E nxt \in {"recheck", "pae_overflow_set", "pae_set", "exc_set"} :
         thr' = [thr EXCEPT ![t].pc = nxt,
                            ![t].readerr = @ \/ nxt \in {"pae_set", "exc_set"}]
    /\ AudioFrame

\* lines 62-64: the event is re-checked after the blocking read
LoopRecheck(t) ==
    /\ thr[t].pc = "recheck"
    /\ thr' = [thr EXCEPT ![t].pc = IF recording_active_event THEN "callback"
                                     ELSE "with_exit"]
    /\ AudioFrame

\* lines 65-68: the chunk is delivered; the callback may raise (caught at line 80)
LoopCallback(t) ==
    /\ thr[t].pc = "callback"
    /\ \E nxt \in {"loop", "exc_set"} : thr' = [thr EXCEPT ![t].pc = nxt]
    /\ AudioFrame

\* lines 70-72: PortAudioError 'Input overflowed': recorded, the loop goes on
LoopOverflow(t) ==
    /\ thr[t].pc = "pae_overflow_set"
    /\ last_error' = "PortAudioError"
    /\ thr' = [thr EXCEPT ![t].pc = "loop", ![t].erred = TRUE]
    /\ UNCHANGED <<is_recording, recording_thread, recording_active_event,
                   stream_ready_event, lock, ctl>>

\* line 70: any other PortAudioError
LoopPaeSet(t) ==
    /\ thr[t].pc = "pae_set"
    /\ last_error' = "PortAudioError"
    /\ thr' = [thr EXCEPT ![t].pc = "pae_branch", ![t].erred = TRUE]
    /\ UNCHANGED <<is_recording, recording_thread, recording_active_event,
                   stream_ready_event, lock, ctl>>

\* lines 73 and 77-79
LoopPaeBranch(t) ==
    /\ thr[t].pc = "pae_branch"
    /\ thr' = [thr EXCEPT ![t].pc = IF recording_active_event THEN "pae_clear"
                                     ELSE "with_exit"]
    /\ AudioFrame

\* lines 75-76
\* (the same, leaving the event set)
LoopPaeClearMutKeepsEvent(t) ==
    /\ thr[t].pc = "pae_clear"
    /\ recording_active_event' = recording_active_event
    /\ thr' = [thr EXCEPT ![t].pc = "with_exit"]
    /\ UNCHANGED <<is_recording, recording_thread, stream_ready_event, last_error,
                   lock, ctl>>

LoopPaeClear(t) ==
    /\ thr[t].pc = "pae_clear"
    /\ recording_active_event' = FALSE
    /\ thr' = [thr EXCEPT ![t].pc = "with_exit"]
    /\ UNCHANGED <<is_recording, recording_thread, stream_ready_event, last_error,
                   lock, ctl>>

\* line 81
LoopExcSet(t) ==
    /\ thr[t].pc = "exc_set"
    /\ last_error' = "Exception"
    /\ thr' = [thr EXCEPT ![t].pc = "exc_clear", ![t].erred = TRUE]
    /\ UNCHANGED <<is_recording, recording_thread, recording_active_event,
                   stream_ready_event, lock, ctl>>

\* lines 84-85
LoopExcClear(t) ==
    /\ thr[t].pc = "exc_clear"
    /\ recording_active_event' = FALSE
    /\ thr' = [thr EXCEPT ![t].pc = "with_exit"]
    /\ UNCHANGED <<is_recording, recording_thread, stream_ready_event, last_error,
                   lock, ctl>>

\* lines 55 and 86: leaving the `with` block closes the stream
LoopWithExit(t) ==
    /\ thr[t].pc = "with_exit"
    /\ thr' = [thr EXCEPT ![t].pc = "finally_ready", ![t].stream = "closed"]
    /\ AudioFrame

\* lines 88 / 93: an error before or while opening the stream is recorded
LoopOuterSet(t) ==
    /\ thr[t].pc = "outer_set"
    /\ \E e \in {"PortAudioError", "Exception"} : last_error' = e
    /\ thr' = [thr EXCEPT ![t].pc = "outer_ready", ![t].erred = TRUE]
    /\ UNCHANGED <<is_recording, recording_thread, recording_active_event,
                   stream_ready_event, lock, ctl>>

\* lines 89 / 94
LoopOuterReady(t) ==
    /\ thr[t].pc = "outer_ready"
    /\ stream_ready_event' = TRUE
    /\ thr' = [thr EXCEPT ![t].pc = "outer_clear"]
    /\ UNCHANGED <<is_recording, recording_thread, recording_active_event,
                   last_error, lock, ctl>>

\* lines 90 / 95
LoopOuterClear(t) ==
    /\ thr[t].pc = "outer_clear"
    /\ recording_active_event' = FALSE
    /\ thr' = [thr EXCEPT ![t].pc = "finally_ready"]
    /\ UNCHANGED <<is_recording, recording_thread, stream_ready_event, last_error,
                   lock, ctl>>

\* lines 97-107: finally: the ready event is set, a stream still open is closed
LoopFinallyReady(t) ==
    /\ thr[t].pc = "finally_ready"
    /\ stream_ready_event' = TRUE
    /\ thr' = [thr EXCEPT ![t].pc = "finally_flag",
                          ![t].stream = IF @ = "open" THEN "closed" ELSE @]
    /\ UNCHANGED <<is_recording, recording_thread, recording_active_event,
                   last_error, lock, ctl>>

\* lines 109-112: _is_recording is cleared under the lock; the thread finishes
LoopFinallyFlag(t) ==
    /\ thr[t].pc = "finally_flag"
    /\ lock = "free"
    /\ is_recording' = FALSE
    /\ thr' = [thr EXCEPT ![t].pc = "done"]
    /\ UNCHANGED <<recording_thread, recording_active_event, stream_ready_event,
                   last_error, lock, ctl>>

\* -------------------------------------------------------------- ASRService

\* Python values crossing the result callback
NoneText == <<"None">>
MODEL_LOADED_SUCCESSFULLY == <<"MODEL_LOADED_SUCCESSFULLY">>
\* asr_service.py:25
SHUTDOWN_SENTINEL == [id |-> 0, size |-> 0]

\* a transcript is a sequence of characters; " " is whitespace
RawTexts == {<<>>, <<" ">>, <<"a">>, <<"a", " ">>}
Shapes == {"str", "hyp", "hyp_list", "str_list", "other"}
\* what asr_model.transcribe() may return: nothing, or a one-item list
RawResults == {[shape |-> "empty", text |-> <<>>]}
              \cup [shape : Shapes, text : RawTexts]
\* how asr_model.decoding can be reset: decoding.reset(), change_decoding_strategy(),
\* decoder.decoder_state, or not at all
DecoderKinds == {"reset", "rebuild", "state", "none"}

\* str.strip()
RECURSIVE LStrip(_)
LStrip(s) == IF s # <<>> /\ Head(s) = " " THEN LStrip(Tail(s)) ELSE s
RECURSIVE RStrip(_)
RStrip(s) == IF s # <<>> /\ s[Len(s)] = " " THEN RStrip(SubSeq(s, 1, Len(s) - 1)) ELSE s
Strip(s) == RStrip(LStrip(s))

\* lines 154-169: the result of transcribe() is normalised to one text
NormalizeResult(r) ==
    CASE r.shape = "empty"    -> <<>>
      [] r.shape = "str"      -> Strip(r.text)
      [] r.shape = "hyp"      -> r.text
      [] r.shape = "hyp_list" -> r.text
      [] r.shape = "str_list" -> r.text
      [] OTHER                -> <<>>

\* self._asr_worker_thread.is_alive(); the thread is started in __init__ (line 40)
WorkerAlive == worker_pc \notin {"exited", "crashed"}

NoCur == [id |-> 0, size |-> 0, text |-> NoneText, error |-> "None"]

\* one result_callback(text, error) invocation
Call(id, text, error, via) == [id |-> id, text |-> text, error |-> error, via |-> via]

ASRInit ==
    /\ worker_pc = "init_path"
    /\ is_model_loaded = FALSE
    /\ asr_model = "None"
    /\ request_queue = <<>>
    /\ cur = NoCur
    /\ callbacks = <<>>
    /\ reqlog = <<>>
    /\ shutdown_called = FALSE
    /\ env \in [path_ok : BOOLEAN, decoder : DecoderKinds]

\* ---- submit_transcription_request, lines 249-258 (called on the main thread)
\* with the request labelled id
SubmitTranscriptionRequestMutQueueWhenDead(id, size) ==
    /\ request_queue' = Append(request_queue, [id |-> id, size |-> size])
    /\ UNCHANGED callbacks

SubmitTranscriptionRequest(id, size) ==
    IF ~WorkerAlive
      THEN /\ callbacks' = Append(callbacks, Call(id, NoneText, "RuntimeError", "submit"))
           /\ UNCHANGED request_queue
      ELSE /\ request_queue' = Append(request_queue, [id |-> id, size |-> size])
           /\ UNCHANGED callbacks

\* the main thread submits a request of some size; reqlog records how it was accepted
Submit ==
    /\ Len(reqlog) < MaxRequests
    /\ \E size \in 0..MaxLen :
         LET id == Len(reqlog) + 1 IN
           /\ reqlog' = Append(reqlog, [size |-> size, queued |-> WorkerAlive,
                                        loading |-> WorkerAlive /\ ~is_model_loaded,
                                        reset |-> "not_run", transcribes |-> 0,
                                        tthrew |-> FALSE])
           /\ SubmitTranscriptionRequest(id, size)
    /\ UNCHANGED <<worker_pc, is_model_loaded, asr_model, cur, shutdown_called, env>>

\* ---- shutdown, lines 260-270: the sentinel is enqueued when the worker is alive;
\* the bounded join changes no state
Shutdown ==
    /\ ~shutdown_called
    /\ shutdown_called' = TRUE
    /\ request_queue' = IF WorkerAlive THEN Append(request_queue, SHUTDOWN_SENTINEL)
                        ELSE request_queue
    /\ UNCHANGED <<worker_pc, is_model_loaded, asr_model, cur, callbacks, reqlog, env>>

\* ---- _initialize_model_on_worker
\* lines 45-50: no model file: the error is sent to the callback (which may raise,
\* killing the thread) and the worker returns
WorkerInitPath ==
    /\ worker_pc = "init_path"
    /\ IF env.path_ok
         THEN /\ worker_pc' = "restore"
              /\ UNCHANGED callbacks
         ELSE /\ callbacks' = Append(callbacks,
                                     Call(0, NoneText, "FileNotFoundError", "load"))
              /\ worker_pc' \in {"exited", "crashed"}
    /\ UNCHANGED <<is_model_loaded, asr_model, request_queue, cur, reqlog,
                   shutdown_called, env>>

\* lines 62-64: restore_from() and eval(), or an exception
WorkerRestore ==
    /\ worker_pc = "restore"
    /\ \/ /\ asr_model' = "model"
          /\ worker_pc' = "set_loaded"
       \/ /\ worker_pc' = "load_except"
          /\ UNCHANGED asr_model
    /\ UNCHANGED <<is_model_loaded, request_queue, cur, callbacks, reqlog,
                   shutdown_called, env>>

\* lines 66-76
WorkerSetLoaded ==
    /\ worker_pc = "set_loaded"
    /\ is_model_loaded' = TRUE
    /\ worker_pc' = "warmup"
    /\ UNCHANGED <<asr_model, request_queue, cur, callbacks, reqlog, shutdown_called, env>>

\* lines 78-82: the warm-up inference, which may raise
WorkerWarmup ==
    /\ worker_pc = "warmup"
    /\ worker_pc' \in {"signal_loaded", "load_except"}
    /\ UNCHANGED <<is_model_loaded, asr_model, request_queue, cur, callbacks, reqlog,
                   shutdown_called, env>>

\* lines 83-86: the load-success signal; a callback that raises is caught at line 87
WorkerSignalLoaded ==
    /\ worker_pc = "signal_loaded"
    /\ callbacks' = Append(callbacks, Call(0, MODEL_LOADED_SUCCESSFULLY, "None", "load"))
    /\ worker_pc' \in {"get", "load_except"}
    /\ UNCHANGED <<is_model_loaded, asr_model, request_queue, cur, reqlog,
                   shutdown_called, env>>

\* lines 87-93 and 180-182: the load failed: the error is sent and the worker returns
WorkerLoadExcept ==
    /\ worker_pc = "load_except"
    /\ asr_model' = "None"
    /\ is_model_loaded' = FALSE
    /\ callbacks' = Append(callbacks, Call(0, NoneText, "Exception", "load"))
    /\ worker_pc' \in {"exited", "crashed"}
    /\ UNCHANGED <<request_queue, cur, reqlog, shutdown_called, env>>

\* ---- _asr_worker_loop
\* lines 186-192: the next item is taken from the queue (blocking while it is
\* empty); the sentinel ends the loop
WorkerGetMutLifo ==
    /\ worker_pc = "get"
    /\ request_queue # <<>>
    /\ LET n == Len(request_queue)
           item == request_queue[n] IN
         /\ request_queue' = SubSeq(request_queue, 1, n - 1)
         /\ IF item = SHUTDOWN_SENTINEL
              THEN /\ worker_pc' = "exited"
                   /\ UNCHANGED cur
              ELSE /\ worker_pc' = "perform"
                   /\ cur' = [id |-> item.id, size |-> item.size,
                              text |-> NoneText, error |-> "None"]
    /\ UNCHANGED <<is_model_loaded, asr_model, callbacks, reqlog, shutdown_called, env>>

WorkerGet ==
    /\ worker_pc = "get"
    /\ request_queue # <<>>
    /\ LET item == Head(request_queue) IN
         /\ request_queue' = Tail(request_queue)
         /\ IF item = SHUTDOWN_SENTINEL
              THEN /\ worker_pc' = "exited"
                   /\ UNCHANGED cur
              ELSE /\ worker_pc' = "perform"
                   /\ cur' = [id |-> item.id, size |-> item.size,
                              text |-> NoneText, error |-> "None"]
    /\ UNCHANGED <<is_model_loaded, asr_model, callbacks, reqlog, shutdown_called, env>>

\* _perform_transcription_on_worker, lines 105-111: the guards before the decoder
WorkerPerformMutNoEmptyCheck ==
    /\ worker_pc = "perform"
    /\ IF ~is_model_loaded \/ asr_model = "None"
         THEN /\ cur' = [cur EXCEPT !.text = NoneText, !.error = "RuntimeError"]
              /\ worker_pc' = "deliver"
         ELSE /\ worker_pc' = "reset"
              /\ UNCHANGED cur
    /\ UNCHANGED <<is_model_loaded, asr_model, request_queue, callbacks, reqlog,
                   shutdown_called, env>>

WorkerPerform ==
    /\ worker_pc = "perform"
    /\ IF ~is_model_loaded \/ asr_model = "None"
         THEN /\ cur' = [cur EXCEPT !.text = NoneText, !.error = "RuntimeError"]
              /\ worker_pc' = "deliver"
         ELSE IF cur.size = 0
                THEN /\ cur' = [cur EXCEPT !.text = <<>>, !.error = "None"]
                     /\ worker_pc' = "deliver"
                ELSE /\ worker_pc' = "reset"
                     /\ UNCHANGED cur
    /\ UNCHANGED <<is_model_loaded, asr_model, request_queue, callbacks, reqlog,
                   shutdown_called, env>>

\* lines 128-148: the decoder reset by the best mechanism the model exposes; an
\* exception of the reset is caught and logged
WorkerResetMutAbort ==
    /\ worker_pc = "reset"
    /\ \/ /\ reqlog' = [reqlog EXCEPT ![cur.id].reset =
                           IF env.decoder = "none" THEN "unavailable" ELSE "done"]
          /\ worker_pc' = "transcribe"
          /\ UNCHANGED cur
       \/ /\ env.decoder # "none"
          /\ reqlog' = [reqlog EXCEPT ![cur.id].reset = "threw"]
          /\ cur' = [cur EXCEPT !.text = NoneText, !.error = "Exception"]
          /\ worker_pc' = "deliver"
    /\ UNCHANGED <<is_model_loaded, asr_model, request_queue, callbacks,
                   shutdown_called, env>>

WorkerReset ==
    /\ worker_pc = "reset"
    /\ \/ reqlog' = [reqlog EXCEPT ![cur.id].reset =
                        IF env.decoder = "none" THEN "unavailable" ELSE "done"]
       \/ /\ env.decoder # "none"
          /\ reqlog' = [reqlog EXCEPT ![cur.id].reset = "threw"]
    /\ worker_pc' = "transcribe"
    /\ UNCHANGED <<is_model_loaded, asr_model, request_queue, cur, callbacks,
                   shutdown_called, env>>

\* lines 149-176: inference on the one-item batch; the result is normalised, an
\* exception becomes the error of the outcome
WorkerTranscribe ==
    /\ worker_pc = "transcribe"
    /\ \/ \E r \in RawResults :
            /\ cur' = [cur EXCEPT !.text = NormalizeResult(r), !.error = "None"]
            /\ reqlog' = [reqlog EXCEPT ![cur.id].transcribes = @ + 1]
       \/ /\ cur' = [cur EXCEPT !.text = NoneText, !.error = "Exception"]
          /\ reqlog' = [reqlog EXCEPT ![cur.id].transcribes = @ + 1,
                                      ![cur.id].tthrew = TRUE]
    /\ worker_pc' = "deliver"
    /\ UNCHANGED <<is_model_loaded, asr_model, request_queue, callbacks,
                   shutdown_called, env>>

\* lines 195-198: the outcome is handed to result_callback; a callback that raises
\* lands in the handler of line 200
WorkerDeliver ==
    /\ worker_pc = "deliver"
    /\ callbacks' = Append(callbacks, Call(cur.id, cur.text, cur.error, "result"))
    /\ worker_pc' \in {"get", "safety_net"}
    /\ UNCHANGED <<is_model_loaded, asr_model, request_queue, cur, reqlog,
                   shutdown_called, env>>

\* lines 200-209: the safety net sends a generic error; a callback that raises
\* again leaves the handler and ends the thread
WorkerSafetyNet ==
    /\ worker_pc = "safety_net"
    /\ callbacks' = Append(callbacks, Call(cur.id, NoneText, "Exception", "safety_net"))
    /\ worker_pc' \in {"get", "crashed"}
    /\ UNCHANGED <<is_model_loaded, asr_model, request_queue, cur, reqlog,
                   shutdown_called, env>>

\* ---- the accumulation buffer
\* chunks the capture thread may pass to process_audio_chunk in one behaviour
MaxChunks == 3

IdleDrain == [pc |-> "idle", full_audio |-> <<>>]

BufferInit ==
    /\ buffer = <<>>
    /\ drain = IdleDrain
    /\ handed = <<>>
    /\ accepted = <<>>

\* process_audio_chunk, lines 213-222 (capture thread): dropped when the model is
\* not loaded and the worker is dead, else converted and appended. A chunk is
\* modelled by its label c; the float32 conversion keeps the label.
ProcessAudioChunk(c) ==
    IF ~is_model_loaded /\ ~WorkerAlive
      THEN UNCHANGED buffer
      ELSE buffer' = Append(buffer, c)

\* the capture thread delivers its next chunk, labelled by its number
CaptureChunk ==
    /\ Len(accepted) < MaxChunks
    /\ LET c == Len(accepted) + 1 IN
         /\ ProcessAudioChunk(c)
         /\ accepted' = IF buffer' # buffer THEN Append(accepted, c) ELSE accepted
    /\ UNCHANGED <<drain, handed>>

\* get_buffered_audio_and_clear (control thread), statement by statement: the
\* code takes no lock, so appends interleave with these steps
DrainCall ==
    /\ drain.pc = "idle"
    /\ drain' = [pc |-> "test", full_audio |-> <<>>]
    /\ UNCHANGED <<buffer, handed, accepted>>

\* lines 225-236: an empty buffer returns an empty array
DrainTest ==
    /\ drain.pc = "test"
    /\ drain' = IF buffer = <<>> THEN IdleDrain ELSE [drain EXCEPT !.pc = "concat"]
    /\ UNCHANGED <<buffer, handed, accepted>>

\* line 239: full_audio = np.concatenate(self._buffer) (mono chunks: no ValueError)
DrainConcat ==
    /\ drain.pc = "concat"
    /\ drain' = [pc |-> "clear", full_audio |-> buffer]
    /\ UNCHANGED <<buffer, handed, accepted>>

\* lines 245-247: self._buffer = [] and full_audio is returned
DrainClear ==
    /\ drain.pc = "clear"
    /\ buffer' = <<>>
    /\ handed' = handed \o drain.full_audio
    /\ drain' = IdleDrain
    /\ UNCHANGED accepted

\* ------------------------------------------------ LiveTranscriptionService

\* preview threads one behaviour may create
MaxPreviews == 2

\* __init__, lines 41-52
LiveInit ==
    /\ is_active = FALSE
    /\ stop_event = FALSE
    /\ preview_thread = 0
    /\ preview_pc = [t \in 1..MaxPreviews |-> "unborn"]

\* ---- start(), lines 59-76: ignored while active; otherwise the flag is set,
\* the event cleared and a new preview thread created and started
LiveStart ==
    /\ ~is_active
    /\ \E t \in 1..MaxPreviews :
         /\ preview_pc[t] = "unborn"
         /\ \A u \in 1..(t - 1) : preview_pc[u] # "unborn"
         /\ preview_pc' = [preview_pc EXCEPT ![t] = "wait"]
         /\ preview_thread' = t
    /\ is_active' = TRUE
    /\ stop_event' = FALSE
    /\ UNCHANGED <<audio_vars, asr_vars, buf_vars, app_vars>>

\* ---- stop(), lines 78-93, taken at its return: the flag is cleared, the event
\* set and the thread joined for at most 2 s. A thread waiting on the event
\* ends at once; one inside a preview inference ends within the 2 s or is
\* still there when the join gives up. The handle is cleared either way.
LiveStop ==
    /\ is_active
    /\ is_active' = FALSE
    /\ stop_event' = TRUE
    /\ IF preview_thread # 0 /\ preview_pc[preview_thread] = "infer"
         THEN \/ preview_pc' = [preview_pc EXCEPT ![preview_thread] = "done"]
              \/ UNCHANGED preview_pc
         ELSE preview_pc' = [t \in 1..MaxPreviews |->
                               IF t = preview_thread THEN "done" ELSE preview_pc[t]]
    /\ preview_thread' = 0
    /\ UNCHANGED <<audio_vars, asr_vars, buf_vars, app_vars>>

\* ---- _preview_loop, lines 117-138, and the guards of lines 151-156: one round
\* of thread t after its wait on the event. The loop ends when the event is
\* set or the service is not active; a round without enough audio, or with no
\* model loaded, goes back to the wait; otherwise the preview inference starts
PreviewLoop(t) ==
    /\ preview_pc[t] = "wait"
    /\ IF stop_event \/ ~is_active
         THEN preview_pc' = [preview_pc EXCEPT ![t] = "done"]
         ELSE \/ UNCHANGED preview_pc
              \/ /\ is_model_loaded /\ asr_model # "None"
                 /\ preview_pc' = [preview_pc EXCEPT ![t] = "infer"]
    /\ UNCHANGED <<is_active, stop_event, preview_thread>>
    /\ UNCHANGED <<audio_vars, asr_vars, buf_vars, app_vars>>

\* ---- _request_preview_transcription, lines 158-172: the inference of thread t
\* returns (or raises, caught at line 171) and the loop waits again
RequestPreviewTranscription(t) ==
    /\ preview_pc[t] = "infer"
    /\ preview_pc' = [preview_pc EXCEPT ![t] = "wait"]
    /\ UNCHANGED <<is_active, stop_event, preview_thread>>
    /\ UNCHANGED <<audio_vars, asr_vars, buf_vars, app_vars>>

\* ------------------------------------------------------------ DictationApp

\* hotkey presses asking to activate that one behaviour may contain
MaxCycles == 2
\* calls that may wait in the main thread's queue
MaxQueue == 2
\* chunks one recording may accumulate
MaxBuf == 2

\* main.py:448-449: RMS level at or below which a chunk is silence, and the
\* seconds of silence before the auto-stop
silence_threshold == 150
silence_duration == 2
\* transcription_history.py:79
MAX_ENTRIES == 20

\* RMS levels of a chunk: silence, exactly the threshold, just above it
RmsLevels == {0, silence_threshold, silence_threshold + 1}

\* self._last_sound_time is None, or a timestamp; of a timestamp the model keeps
\* time.time() - self._last_sound_time, saturated at silence_duration (the code
\* only compares that difference with silence_duration, line 664)
NoSoundTime == [none |-> TRUE, elapsed |-> 0]
JustNowMutNotArmed == [none |-> TRUE, elapsed |-> 0]
JustNow == [none |-> FALSE, elapsed |-> 0]

\* a call queued by AppHelper.callAfter, or the payload of a timer
Ev(fn, type, status, text, error) ==
    [fn |-> fn, type |-> type, status |-> status, text |-> text, error |-> error]
CallOf(fn) == Ev(fn, "none", "none", NoneText, "None")
ASR_CALLBACK_TYPE_MODEL_LOAD == "model_load_status"
ASR_CALLBACK_TYPE_TRANSCRIPTION == "transcription_result"

\* `x is None or x.strip() == ""` of lines 718-719 and 774
IsBlankMutNoStrip(text) == text = NoneText \/ text = <<>>

IsBlank(text) == text = NoneText \/ Strip(text) = <<>>

\* what the user may leave in the review window: the text shown, an edit, or
\* nothing (Clear)
EditedTexts(original) == {original, <<"b">>, <<>>}

\* TranscriptionHistory.add, transcription_history.py:84-95
HistoryAddMutNeverDiscarded(h, original_text, corrected_text, discarded) ==
    LET entry == [original_text |-> original_text,
                  corrected_text |-> IF corrected_text # original_text
                                       THEN corrected_text ELSE NoneText,
                  discarded |-> FALSE]
        all == <<entry>> \o h
    IN  IF Len(all) > MAX_ENTRIES THEN SubSeq(all, 1, MAX_ENTRIES) ELSE all

HistoryAdd(h, original_text, corrected_text, discarded) ==
    LET entry == [original_text |-> original_text,
                  corrected_text |-> IF corrected_text # original_text
                                       THEN corrected_text ELSE NoneText,
                  discarded |-> discarded]
        all == <<entry>> \o h
    IN  IF Len(all) > MAX_ENTRIES THEN SubSeq(all, 1, MAX_ENTRIES) ELSE all

\* the applications the user works in
Apps == {"app1", "app2"}

ClosedReview == [visible |-> FALSE, original_text |-> <<>>]

AppInit ==
    /\ dictation_active = FALSE
    /\ is_transcribing = FALSE
    /\ waiting_for_correction = FALSE
    /\ asr_model_status = "initializing"
    /\ model_loaded_handled = FALSE
    /\ last_sound_time = NoSoundTime
    /\ auto_stop_pending = FALSE
    /\ last_transcribed_text = NoneText
    /\ pending_transcription_text = NoneText
    /\ hotkey_active = FALSE
    /\ hk_pc = "idle"
    /\ hotkey_pressed = {}
    /\ model_load_signals = 0
    /\ main_queue = <<>>
    /\ timers = <<>>
    /\ review = ClosedReview
    /\ history = <<>>
    /\ last_inserted_text = NoneText
    /\ alert = "None"
    /\ activations = 0
    /\ auto_stops = 0
    /\ frontmost = "app1"
    /\ dictation_source_app = "None"

\* the Controller is in the Idle state of the lifecycle
Idle == ~dictation_active /\ ~is_transcribing /\ ~waiting_for_correction

\* the main thread takes the next queued call when it is a call of fn
Takes(fn) == main_queue # <<>> /\ Head(main_queue).fn = fn

\* the parts of the AudioManager and of the ASR service a step leaves alone
audio_rest == <<recording_thread, stream_ready_event, lock, thr, ctl>>
asr_rest == <<worker_pc, is_model_loaded, asr_model, cur, shutdown_called, env>>
buf_rest == <<drain, handed, accepted>>

\* ---- AudioManager as its callers on the main thread see it: each call is taken
\* at its return, with the capture thread joined (audio_manager.py:114-195)
\* stop_recording(): the event is cleared and the flag is False on return
StopRecording ==
    /\ is_recording' = FALSE
    /\ recording_active_event' = FALSE

\* start_recording() returned True: flag and event set, the capture loop reading
StartRecordingOk ==
    /\ is_recording' = TRUE
    /\ recording_active_event' = TRUE
    /\ last_error' = "None"

\* start_recording() returned False after the 2 s wait or a device error
StartRecordingFailed ==
    /\ is_recording' = FALSE
    /\ recording_active_event' = FALSE
    /\ last_error' \in {"None", "PortAudioError"}

\* ---- _handle_asr_service_result, lines 694-742: the result callback, on the
\* thread that calls it. Given the payload and the value of is_transcribing at
\* the call, the new flags and the call it posts to the main thread (if any).
HandleAsrServiceResultMutBlankKeepsLatch(text, error, transcribing) ==
    LET same == [handled |-> model_loaded_handled, is_transcribing |-> transcribing,
                 hotkey_active |-> hotkey_active, post |-> <<>>]
    IN  IF text = MODEL_LOADED_SUCCESSFULLY /\ model_loaded_handled
          THEN same
        ELSE IF text = MODEL_LOADED_SUCCESSFULLY
          THEN [same EXCEPT !.handled = TRUE,
                            !.post = <<Ev("create_timer", ASR_CALLBACK_TYPE_MODEL_LOAD,
                                          "loaded", NoneText, "None")>>]
        ELSE IF error # "None" /\ asr_model_status = "initializing"
          THEN [same EXCEPT !.post = <<Ev("create_timer", ASR_CALLBACK_TYPE_MODEL_LOAD,
                                          "error", NoneText, error)>>]
        ELSE IF error = "None" /\ IsBlank(text)
          THEN [same EXCEPT !.is_transcribing = FALSE,
                            !.hotkey_active = hotkey_active]
        ELSE [same EXCEPT !.post = <<Ev("create_timer", ASR_CALLBACK_TYPE_TRANSCRIPTION,
                                        "none", text, error)>>]

HandleAsrServiceResultMutBlankIgnoresError(text, error, transcribing) ==
    LET same == [handled |-> model_loaded_handled, is_transcribing |-> transcribing,
                 hotkey_active |-> hotkey_active, post |-> <<>>]
    IN  IF text = MODEL_LOADED_SUCCESSFULLY /\ model_loaded_handled
          THEN same
        ELSE IF text = MODEL_LOADED_SUCCESSFULLY
          THEN [same EXCEPT !.handled = TRUE,
                            !.post = <<Ev("create_timer", ASR_CALLBACK_TYPE_MODEL_LOAD,
                                          "loaded", NoneText, "None")>>]
        ELSE IF error # "None" /\ asr_model_status = "initializing"
          THEN [same EXCEPT !.post = <<Ev("create_timer", ASR_CALLBACK_TYPE_MODEL_LOAD,
                                          "error", NoneText, error)>>]
        ELSE IF IsBlank(text)
          THEN [same EXCEPT !.is_transcribing = FALSE,
                            !.hotkey_active = IF transcribing THEN FALSE ELSE hotkey_active]
        ELSE [same EXCEPT !.post = <<Ev("create_timer", ASR_CALLBACK_TYPE_TRANSCRIPTION,
                                        "none", text, error)>>]

\* the same, without the duplicate test of lines 699-701
HandleAsrServiceResultMutNoDuplicateTest(text, error, transcribing) ==
    LET same == [handled |-> model_loaded_handled, is_transcribing |-> transcribing,
                 hotkey_active |-> hotkey_active, post |-> <<>>]
    IN  IF text = MODEL_LOADED_SUCCESSFULLY
          THEN [same EXCEPT !.handled = TRUE,
                            !.post = <<Ev("create_timer", ASR_CALLBACK_TYPE_MODEL_LOAD,
                                          "loaded", NoneText, "None")>>]
        ELSE IF error # "None" /\ asr_model_status = "initializing"
          THEN [same EXCEPT !.post = <<Ev("create_timer", ASR_CALLBACK_TYPE_MODEL_LOAD,
                                          "error", NoneText, error)>>]
        ELSE IF error = "None" /\ IsBlank(text)
          THEN [same EXCEPT !.is_transcribing = FALSE,
                            !.hotkey_active = IF transcribing THEN FALSE ELSE hotkey_active]
        ELSE [same EXCEPT !.post = <<Ev("create_timer", ASR_CALLBACK_TYPE_TRANSCRIPTION,
                                        "none", text, error)>>]

HandleAsrServiceResult(text, error, transcribing) ==
    LET same == [handled |-> model_loaded_handled, is_transcribing |-> transcribing,
                 hotkey_active |-> hotkey_active, post |-> <<>>]
    IN  IF text = MODEL_LOADED_SUCCESSFULLY /\ model_loaded_handled
          THEN same
        ELSE IF text = MODEL_LOADED_SUCCESSFULLY
          THEN [same EXCEPT !.handled = TRUE,
                            !.post = <<Ev("create_timer", ASR_CALLBACK_TYPE_MODEL_LOAD,
                                          "loaded", NoneText, "None")>>]
        ELSE IF error # "None" /\ asr_model_status = "initializing"
          THEN [same EXCEPT !.post = <<Ev("create_timer", ASR_CALLBACK_TYPE_MODEL_LOAD,
                                          "error", NoneText, error)>>]
        ELSE IF error = "None" /\ IsBlank(text)
          THEN [same EXCEPT !.is_transcribing = FALSE,
                            !.hotkey_active = IF transcribing THEN FALSE ELSE hotkey_active]
        ELSE [same EXCEPT !.post = <<Ev("create_timer", ASR_CALLBACK_TYPE_TRANSCRIPTION,
                                        "none", text, error)>>]

\* lines 848-867: an activate is refused while the mic is flagged recording or
\* the model is not loaded
ActivationRefusedMutErrorPasses == is_recording \/ asr_model_status = "initializing"

ActivationRefused == is_recording \/ asr_model_status # "loaded"

\* ---- _activate_dictation_main, lines 842-925
ActivateDictationMainMutClearsBufferFirst ==
    /\ Takes("activate")
    /\ main_queue' = Tail(main_queue)
    /\ IF ActivationRefused
         THEN \* lines 850-867: mic busy, model initializing, model failed
              /\ hotkey_active' = FALSE
              /\ alert' = IF ~is_recording /\ asr_model_status = "error"
                            THEN "ASR Error" ELSE "None"
              /\ buffer' = <<>>
              /\ UNCHANGED <<dictation_active, last_sound_time, auto_stop_pending,
                             is_recording, recording_active_event, last_error,
                             auto_stops, dictation_source_app>>
         ELSE IF is_transcribing \/ dictation_active
         THEN \* lines 868-872
              /\ alert' = "None"
              /\ UNCHANGED <<hotkey_active, dictation_active, last_sound_time,
                             auto_stop_pending, buffer, is_recording,
                             recording_active_event, last_error, auto_stops, dictation_source_app>>
         ELSE \* lines 873-925
              /\ dictation_source_app' = frontmost
              /\ buffer' = <<>>
              /\ last_sound_time' = JustNow
              /\ auto_stop_pending' = FALSE
              /\ auto_stops' = 0
              /\ \/ /\ StartRecordingOk
                    /\ dictation_active' = TRUE
                    /\ alert' = "None"
                    /\ UNCHANGED hotkey_active
                 \/ /\ StartRecordingFailed
                    /\ dictation_active' = FALSE
                    /\ alert' = "Audio Error"
                    /\ hotkey_active' = FALSE
    /\ UNCHANGED <<live_vars, audio_rest, hotkey_pressed, model_load_signals, frontmost, asr_rest, buf_rest, request_queue, callbacks, reqlog,
                   is_transcribing, waiting_for_correction, asr_model_status,
                   model_loaded_handled, last_transcribed_text,
                   pending_transcription_text, hk_pc, timers, review, history,
                   last_inserted_text, activations>>

\* the same, without the is_transcribing test of lines 868-870
ActivateDictationMainMutStartsWhileTranscribing ==
    /\ Takes("activate")
    /\ main_queue' = Tail(main_queue)
    /\ IF ActivationRefused
         THEN \* lines 850-867: mic busy, model initializing, model failed
              /\ hotkey_active' = FALSE
              /\ alert' = IF ~is_recording /\ asr_model_status = "error"
                            THEN "ASR Error" ELSE "None"
              /\ UNCHANGED <<dictation_active, last_sound_time, auto_stop_pending, buffer,
                             is_recording, recording_active_event, last_error,
                             auto_stops, dictation_source_app>>
         ELSE IF dictation_active
         THEN \* lines 868-872
              /\ alert' = "None"
              /\ UNCHANGED <<hotkey_active, dictation_active, last_sound_time,
                             auto_stop_pending, buffer, is_recording,
                             recording_active_event, last_error, auto_stops, dictation_source_app>>
         ELSE \* lines 873-925
              /\ dictation_source_app' = frontmost
              /\ buffer' = <<>>
              /\ last_sound_time' = JustNow
              /\ auto_stop_pending' = FALSE
              /\ auto_stops' = 0
              /\ \/ /\ StartRecordingOk
                    /\ dictation_active' = TRUE
                    /\ alert' = "None"
                    /\ UNCHANGED hotkey_active
                 \/ /\ StartRecordingFailed
                    /\ dictation_active' = FALSE
                    /\ alert' = "Audio Error"
                    /\ hotkey_active' = FALSE
    /\ UNCHANGED <<live_vars, audio_rest, hotkey_pressed, model_load_signals, frontmost, asr_rest, buf_rest, request_queue, callbacks, reqlog,
                   is_transcribing, waiting_for_correction, asr_model_status,
                   model_loaded_handled, last_transcribed_text,
                   pending_transcription_text, hk_pc, timers, review, history,
                   last_inserted_text, activations>>

ActivateDictationMain ==
    /\ Takes("activate")
    /\ main_queue' = Tail(main_queue)
    /\ IF ActivationRefused
         THEN \* lines 850-867: mic busy, model initializing, model failed
              /\ hotkey_active' = FALSE
              /\ alert' = IF ~is_recording /\ asr_model_status = "error"
                            THEN "ASR Error" ELSE "None"
              /\ UNCHANGED <<dictation_active, last_sound_time, auto_stop_pending, buffer,
                             is_recording, recording_active_event, last_error,
                             auto_stops, dictation_source_app>>
         ELSE IF is_transcribing \/ dictation_active
         THEN \* lines 868-872
              /\ alert' = "None"
              /\ UNCHANGED <<hotkey_active, dictation_active, last_sound_time,
                             auto_stop_pending, buffer, is_recording,
                             recording_active_event, last_error, auto_stops, dictation_source_app>>
         ELSE \* lines 873-925
              /\ dictation_source_app' = frontmost
              /\ buffer' = <<>>
              /\ last_sound_time' = JustNow
              /\ auto_stop_pending' = FALSE
              /\ auto_stops' = 0
              /\ \/ /\ StartRecordingOk
                    /\ dictation_active' = TRUE
                    /\ alert' = "None"
                    /\ UNCHANGED hotkey_active
                 \/ /\ StartRecordingFailed
                    /\ dictation_active' = FALSE
                    /\ alert' = "Audio Error"
                    /\ hotkey_active' = FALSE
    /\ UNCHANGED <<live_vars, audio_rest, hotkey_pressed, model_load_signals, frontmost, asr_rest, buf_rest, request_queue, callbacks, reqlog,
                   is_transcribing, waiting_for_correction, asr_model_status,
                   model_loaded_handled, last_transcribed_text,
                   pending_transcription_text, hk_pc, timers, review, history,
                   last_inserted_text, activations>>

\* ---- _deactivate_dictation_main, lines 933-1025
\* (the same, without the write of line 970)
DeactivateDictationMainMutKeepsActive ==
    /\ Takes("deactivate")
    /\ alert' = "None"
    /\ UNCHANGED dictation_active
    /\ IF is_recording \/ dictation_active
         THEN StopRecording
         ELSE UNCHANGED <<is_recording, recording_active_event>>
    /\ IF ~dictation_active
         THEN \* lines 950-967
              /\ hotkey_active' = IF ~is_transcribing THEN FALSE ELSE hotkey_active
              /\ main_queue' = Tail(main_queue)
              /\ UNCHANGED <<is_transcribing, buffer, request_queue, callbacks,
                             model_loaded_handled>>
         ELSE IF is_transcribing
         THEN \* lines 987-991
              /\ main_queue' = Tail(main_queue)
              /\ UNCHANGED <<hotkey_active, is_transcribing, buffer, request_queue,
                             callbacks, model_loaded_handled>>
         ELSE \* lines 993-1025
              /\ buffer' = <<>>
              /\ IF buffer = <<>>
                   THEN /\ hotkey_active' = FALSE
                        /\ main_queue' = Tail(main_queue)
                        /\ UNCHANGED <<is_transcribing, request_queue, callbacks,
                                       model_loaded_handled>>
                   ELSE /\ SubmitTranscriptionRequest(activations, Len(buffer))
                        /\ IF WorkerAlive
                             THEN /\ is_transcribing' = TRUE
                                  /\ main_queue' = Tail(main_queue)
                                  /\ UNCHANGED <<hotkey_active, model_loaded_handled>>
                             ELSE LET r == HandleAsrServiceResult(NoneText, "RuntimeError",
                                                                  TRUE) IN
                                    /\ is_transcribing' = r.is_transcribing
                                    /\ hotkey_active' = r.hotkey_active
                                    /\ model_loaded_handled' = r.handled
                                    /\ main_queue' = Tail(main_queue) \o r.post
    /\ UNCHANGED <<live_vars, audio_rest, hotkey_pressed, model_load_signals, frontmost, dictation_source_app, asr_rest, buf_rest, last_error, reqlog,
                   waiting_for_correction, asr_model_status, last_sound_time,
                   auto_stop_pending, last_transcribed_text,
                   pending_transcription_text, hk_pc, timers, review, history,
                   last_inserted_text, activations, auto_stops>>

\* (the same, without the latch reset of lines 1000-1002)
DeactivateDictationMainMutEmptyKeepsLatch ==
    /\ Takes("deactivate")
    /\ alert' = "None"
    /\ dictation_active' = FALSE
    /\ IF is_recording \/ dictation_active
         THEN StopRecording
         ELSE UNCHANGED <<is_recording, recording_active_event>>
    /\ IF ~dictation_active
         THEN \* lines 950-967
              /\ hotkey_active' = IF ~is_transcribing THEN FALSE ELSE hotkey_active
              /\ main_queue' = Tail(main_queue)
              /\ UNCHANGED <<is_transcribing, buffer, request_queue, callbacks,
                             model_loaded_handled>>
         ELSE IF is_transcribing
         THEN \* lines 987-991
              /\ main_queue' = Tail(main_queue)
              /\ UNCHANGED <<hotkey_active, is_transcribing, buffer, request_queue,
                             callbacks, model_loaded_handled>>
         ELSE \* lines 993-1025
              /\ buffer' = <<>>
              /\ IF buffer = <<>>
                   THEN /\ hotkey_active' = hotkey_active
                        /\ main_queue' = Tail(main_queue)
                        /\ UNCHANGED <<is_transcribing, request_queue, callbacks,
                                       model_loaded_handled>>
                   ELSE /\ SubmitTranscriptionRequest(activations, Len(buffer))
                        /\ IF WorkerAlive
                             THEN /\ is_transcribing' = TRUE
                                  /\ main_queue' = Tail(main_queue)
                                  /\ UNCHANGED <<hotkey_active, model_loaded_handled>>
                             ELSE LET r == HandleAsrServiceResult(NoneText, "RuntimeError",
                                                                  TRUE) IN
                                    /\ is_transcribing' = r.is_transcribing
                                    /\ hotkey_active' = r.hotkey_active
                                    /\ model_loaded_handled' = r.handled
                                    /\ main_queue' = Tail(main_queue) \o r.post
    /\ UNCHANGED <<live_vars, audio_rest, hotkey_pressed, model_load_signals, frontmost, dictation_source_app, asr_rest, buf_rest, last_error, reqlog,
                   waiting_for_correction, asr_model_status, last_sound_time,
                   auto_stop_pending, last_transcribed_text,
                   pending_transcription_text, hk_pc, timers, review, history,
                   last_inserted_text, activations, auto_stops>>

DeactivateDictationMain ==
    /\ Takes("deactivate")
    /\ alert' = "None"
    /\ dictation_active' = FALSE
    /\ IF is_recording \/ dictation_active
         THEN StopRecording
         ELSE UNCHANGED <<is_recording, recording_active_event>>
    /\ IF ~dictation_active
         THEN \* lines 950-967
              /\ hotkey_active' = IF ~is_transcribing THEN FALSE ELSE hotkey_active
              /\ main_queue' = Tail(main_queue)
              /\ UNCHANGED <<is_transcribing, buffer, request_queue, callbacks,
                             model_loaded_handled>>
         ELSE IF is_transcribing
         THEN \* lines 987-991
              /\ main_queue' = Tail(main_queue)
              /\ UNCHANGED <<hotkey_active, is_transcribing, buffer, request_queue,
                             callbacks, model_loaded_handled>>
         ELSE \* lines 993-1025
              /\ buffer' = <<>>
              /\ IF buffer = <<>>
                   THEN /\ hotkey_active' = FALSE
                        /\ main_queue' = Tail(main_queue)
                        /\ UNCHANGED <<is_transcribing, request_queue, callbacks,
                                       model_loaded_handled>>
                   ELSE /\ SubmitTranscriptionRequest(activations, Len(buffer))
                        /\ IF WorkerAlive
                             THEN /\ is_transcribing' = TRUE
                                  /\ main_queue' = Tail(main_queue)
                                  /\ UNCHANGED <<hotkey_active, model_loaded_handled>>
                             ELSE LET r == HandleAsrServiceResult(NoneText, "RuntimeError",
                                                                  TRUE) IN
                                    /\ is_transcribing' = r.is_transcribing
                                    /\ hotkey_active' = r.hotkey_active
                                    /\ model_loaded_handled' = r.handled
                                    /\ main_queue' = Tail(main_queue) \o r.post
    /\ UNCHANGED <<live_vars, audio_rest, hotkey_pressed, model_load_signals, frontmost, dictation_source_app, asr_rest, buf_rest, last_error, reqlog,
                   waiting_for_correction, asr_model_status, last_sound_time,
                   auto_stop_pending, last_transcribed_text,
                   pending_transcription_text, hk_pc, timers, review, history,
                   last_inserted_text, activations, auto_stops>>

\* ---- _auto_deactivate_dictation, lines 669-675
AutoDeactivateDictation ==
    /\ Takes("auto_deactivate")
    /\ IF dictation_active /\ ~is_transcribing
         THEN /\ hotkey_active' = TRUE
              /\ main_queue' = Append(Tail(main_queue), CallOf("deactivate"))
         ELSE /\ main_queue' = Tail(main_queue)
              /\ UNCHANGED hotkey_active
    /\ auto_stop_pending' = FALSE
    /\ alert' = "None"
    /\ UNCHANGED <<live_vars, audio_rest, hotkey_pressed, model_load_signals, frontmost, dictation_source_app, asr_rest, buf_rest, is_recording,
                   recording_active_event, last_error, request_queue, callbacks,
                   reqlog, buffer, dictation_active, is_transcribing,
                   waiting_for_correction, asr_model_status, model_loaded_handled,
                   last_sound_time, last_transcribed_text, pending_transcription_text,
                   hk_pc, timers, review, history, last_inserted_text, activations,
                   auto_stops>>

\* ---- _create_timer_on_main, lines 677-692: a zero-delay timer carries the
\* payload to _process_asr_result_on_main_thread
CreateTimerOnMain ==
    /\ Takes("create_timer")
    /\ timers' = Append(timers, Head(main_queue))
    /\ main_queue' = Tail(main_queue)
    /\ alert' = "None"
    /\ UNCHANGED <<live_vars, audio_rest, hotkey_pressed, model_load_signals, frontmost, dictation_source_app, asr_rest, buf_rest, is_recording,
                   recording_active_event, last_error, request_queue, callbacks,
                   reqlog, buffer, dictation_active, is_transcribing,
                   waiting_for_correction, asr_model_status, model_loaded_handled,
                   last_sound_time, auto_stop_pending, last_transcribed_text,
                   pending_transcription_text, hotkey_active, hk_pc, review, history,
                   last_inserted_text, activations, auto_stops>>

\* ---- _finish_transcription_cycle, lines 1249-1265
FinishTranscriptionCycleMutKeepsWaiting ==
    /\ UNCHANGED waiting_for_correction
    /\ is_transcribing' = FALSE
    /\ dictation_active' = FALSE
    /\ hotkey_active' = FALSE
    /\ IF is_recording THEN StopRecording
                       ELSE UNCHANGED <<is_recording, recording_active_event>>

FinishTranscriptionCycleMutKeepsLatch ==
    /\ waiting_for_correction' = FALSE
    /\ is_transcribing' = FALSE
    /\ dictation_active' = FALSE
    /\ hotkey_active' = hotkey_active
    /\ IF is_recording THEN StopRecording
                       ELSE UNCHANGED <<is_recording, recording_active_event>>

FinishTranscriptionCycle ==
    /\ waiting_for_correction' = FALSE
    /\ is_transcribing' = FALSE
    /\ dictation_active' = FALSE
    /\ hotkey_active' = FALSE
    /\ IF is_recording THEN StopRecording
                       ELSE UNCHANGED <<is_recording, recording_active_event>>

\* ---- _process_asr_result_on_main_thread, lines 744-837: the timer fires
ProcessAsrResultOnMainThread ==
    /\ timers # <<>>
    /\ LET p == Head(timers)
           open == /\ p.type = ASR_CALLBACK_TYPE_TRANSCRIPTION
                   /\ p.error = "None"
                   /\ ~IsBlank(p.text)
                   /\ p.text # last_transcribed_text
           waiting == waiting_for_correction \/ open
       IN
       /\ timers' = Tail(timers)
       \* lines 753-761
       /\ asr_model_status' = IF p.type = ASR_CALLBACK_TYPE_MODEL_LOAD
                                THEN p.status ELSE asr_model_status
       \* lines 769-771 and 761
       /\ alert' = IF p.type = ASR_CALLBACK_TYPE_MODEL_LOAD /\ p.status = "error"
                     THEN "ASR Model Error"
                   ELSE IF p.type = ASR_CALLBACK_TYPE_TRANSCRIPTION /\ p.error # "None"
                     THEN "Transcription Failed"
                   ELSE "None"
       \* lines 778-789
       /\ waiting_for_correction' = waiting
       /\ pending_transcription_text' = IF open THEN p.text
                                        ELSE pending_transcription_text
       /\ main_queue' = IF open
                          THEN Append(main_queue, Ev("show", "none", "none", p.text, "None"))
                          ELSE main_queue
       \* lines 811-831: the outer finally
       /\ IF p.type = ASR_CALLBACK_TYPE_TRANSCRIPTION /\ ~waiting
            THEN /\ is_transcribing' = FALSE
                 /\ dictation_active' = FALSE
                 /\ hotkey_active' = FALSE
                 /\ IF is_recording THEN StopRecording
                                    ELSE UNCHANGED <<is_recording, recording_active_event>>
            ELSE UNCHANGED <<is_transcribing, dictation_active, hotkey_active,
                             is_recording, recording_active_event>>
    /\ UNCHANGED <<live_vars, audio_rest, hotkey_pressed, model_load_signals, frontmost, dictation_source_app, asr_rest, buf_rest, last_error, request_queue,
                   callbacks, reqlog, buffer, model_loaded_handled, last_sound_time,
                   auto_stop_pending, last_transcribed_text, hk_pc, review, history,
                   last_inserted_text, activations, auto_stops>>

\* ---- CorrectionWindow.show, correction_window.py:680-776
CorrectionWindowShow ==
    /\ Takes("show")
    /\ review' = [visible |-> TRUE, original_text |-> Head(main_queue).text]
    /\ main_queue' = Tail(main_queue)
    /\ alert' = "None"
    /\ UNCHANGED <<live_vars, audio_rest, hotkey_pressed, model_load_signals, frontmost, dictation_source_app, asr_rest, buf_rest, is_recording,
                   recording_active_event, last_error, request_queue, callbacks,
                   reqlog, buffer, dictation_active, is_transcribing,
                   waiting_for_correction, asr_model_status, model_loaded_handled,
                   last_sound_time, auto_stop_pending, last_transcribed_text,
                   pending_transcription_text, hotkey_active, hk_pc, timers, history,
                   last_inserted_text, activations, auto_stops>>

\* ---- CorrectionWindow._do_send, correction_window.py:627-638: the user presses
\* Insert; the window is hidden and the send callback is queued
DoSend ==
    /\ review.visible
    /\ Len(main_queue) < MaxQueue
    /\ \E corrected_text \in EditedTexts(review.original_text) :
         main_queue' = Append(main_queue, Ev("send", "none", "none", corrected_text, "None"))
    /\ review' = [review EXCEPT !.visible = FALSE]
    /\ alert' = "None"
    /\ UNCHANGED <<live_vars, audio_rest, hotkey_pressed, model_load_signals, frontmost, dictation_source_app, asr_rest, buf_rest, is_recording,
                   recording_active_event, last_error, request_queue, callbacks,
                   reqlog, buffer, dictation_active, is_transcribing,
                   waiting_for_correction, asr_model_status, model_loaded_handled,
                   last_sound_time, auto_stop_pending, last_transcribed_text,
                   pending_transcription_text, hotkey_active, hk_pc, timers, history,
                   last_inserted_text, activations, auto_stops>>

\* lines 1170-1194 of _on_correction_send: the app that gets the focus back
\* before the text is typed is the source app captured at activation; without
\* one, the app the review window remembered when it opened
RestoredFocusMutWindowApp == Apps

RestoredFocus == IF dictation_source_app # "None" THEN {dictation_source_app} ELSE Apps

\* ---- _on_correction_send, lines 1165-1229, called by
\* CorrectionWindow._execute_send_callback with (self._original_text, corrected)
OnCorrectionSend ==
    /\ Takes("send")
    /\ LET original_text == review.original_text
           corrected_text == Head(main_queue).text
       IN  /\ history' = HistoryAdd(history, original_text, corrected_text, FALSE)
           \* lines 1199-1225: skipped, typed, insert_text returned False, or threw
           \* (insert_text types nothing and returns False for an empty text)
           /\ \E outcome \in {"skipped", "failed", "threw"}
                               \cup (IF corrected_text # <<>> THEN {"typed"} ELSE {}) :
                last_inserted_text' = IF outcome = "typed" THEN corrected_text
                                      ELSE last_inserted_text
           /\ last_transcribed_text' = corrected_text
    \* lines 1170-1194: focus goes back to the source app, or to the app the
    \* review window remembered
    /\ frontmost' \in RestoredFocus
    /\ pending_transcription_text' = NoneText
    /\ FinishTranscriptionCycle
    /\ main_queue' = Tail(main_queue)
    /\ alert' = "None"
    /\ UNCHANGED <<live_vars, audio_rest, hotkey_pressed, model_load_signals, dictation_source_app, asr_rest, buf_rest, last_error, request_queue,
                   callbacks, reqlog, buffer, asr_model_status, model_loaded_handled,
                   last_sound_time, auto_stop_pending, hk_pc, timers, review,
                   activations, auto_stops>>

\* ---- CorrectionWindow._do_cancel / _on_window_close (correction_window.py:645-678)
\* calling _on_correction_cancel, lines 1231-1241
\* (the same, also recording the discarded text as the last transcribed one)
OnCorrectionCancelMutRecordsText ==
    /\ review.visible
    /\ review' = [review EXCEPT !.visible = FALSE]
    /\ IF pending_transcription_text \notin {NoneText, <<>>}
         THEN /\ history' = HistoryAdd(history, pending_transcription_text, NoneText, TRUE)
              /\ pending_transcription_text' = NoneText
         ELSE UNCHANGED <<history, pending_transcription_text>>
    /\ FinishTranscriptionCycle
    /\ last_transcribed_text' = pending_transcription_text
    /\ alert' = "None"
    /\ UNCHANGED <<live_vars, audio_rest, hotkey_pressed, model_load_signals, frontmost, dictation_source_app, asr_rest, buf_rest, last_error, request_queue,
                   callbacks, reqlog, buffer, asr_model_status, model_loaded_handled,
                   last_sound_time, auto_stop_pending, hk_pc,
                   main_queue, timers, last_inserted_text, activations, auto_stops>>

\* (the same, without the _finish_transcription_cycle of line 1241)
OnCorrectionCancelMutKeepsCycle ==
    /\ review.visible
    /\ review' = [review EXCEPT !.visible = FALSE]
    /\ IF pending_transcription_text \notin {NoneText, <<>>}
         THEN /\ history' = HistoryAdd(history, pending_transcription_text, NoneText, TRUE)
              /\ pending_transcription_text' = NoneText
         ELSE UNCHANGED <<history, pending_transcription_text>>
    /\ UNCHANGED <<waiting_for_correction, is_transcribing, dictation_active,
                   hotkey_active, is_recording, recording_active_event>>
    /\ alert' = "None"
    /\ UNCHANGED <<live_vars, audio_rest, hotkey_pressed, model_load_signals, frontmost, dictation_source_app, asr_rest, buf_rest, last_error, request_queue,
                   callbacks, reqlog, buffer, asr_model_status, model_loaded_handled,
                   last_sound_time, auto_stop_pending, last_transcribed_text, hk_pc,
                   main_queue, timers, last_inserted_text, activations, auto_stops>>

OnCorrectionCancel ==
    /\ review.visible
    /\ review' = [review EXCEPT !.visible = FALSE]
    /\ IF pending_transcription_text \notin {NoneText, <<>>}
         THEN /\ history' = HistoryAdd(history, pending_transcription_text, NoneText, TRUE)
              /\ pending_transcription_text' = NoneText
         ELSE UNCHANGED <<history, pending_transcription_text>>
    /\ FinishTranscriptionCycle
    /\ alert' = "None"
    /\ UNCHANGED <<live_vars, audio_rest, hotkey_pressed, model_load_signals, frontmost, dictation_source_app, asr_rest, buf_rest, last_error, request_queue,
                   callbacks, reqlog, buffer, asr_model_status, model_loaded_handled,
                   last_sound_time, auto_stop_pending, last_transcribed_text, hk_pc,
                   main_queue, timers, last_inserted_text, activations, auto_stops>>

\* ---- HotkeyManager.on_press, hotkey_manager.py:162-178, on the key-listener
\* thread: the callback is called first, the latch is written after it
OnPress(max) ==
    /\ hk_pc = "idle"
    /\ Len(main_queue) < MaxQueue
    /\ IF hotkey_active
         THEN /\ main_queue' = Append(main_queue, CallOf("deactivate"))
              /\ hk_pc' = "set_false"
              /\ UNCHANGED activations
         ELSE /\ activations < max
              /\ main_queue' = Append(main_queue, CallOf("activate"))
              /\ hk_pc' = "set_true"
              /\ activations' = activations + 1
    /\ alert' = "None"
    /\ UNCHANGED <<live_vars, audio_rest, model_load_signals, frontmost, dictation_source_app, asr_rest, buf_rest, is_recording,
                   recording_active_event, last_error, request_queue, callbacks,
                   reqlog, buffer, dictation_active, is_transcribing,
                   waiting_for_correction, asr_model_status, model_loaded_handled,
                   last_sound_time, auto_stop_pending, last_transcribed_text,
                   pending_transcription_text, hotkey_active, timers, review, history,
                   last_inserted_text, auto_stops>>

\* the whole combination pressed at once, as one event of the listener
HotkeyPressed(max) == OnPress(max) /\ UNCHANGED hotkey_pressed

HotkeyOnPress == HotkeyPressed(MaxCycles)

HotkeySetLatch ==
    /\ hk_pc # "idle"
    /\ hotkey_active' = (hk_pc = "set_true")
    /\ hk_pc' = "idle"
    /\ alert' = "None"
    /\ UNCHANGED <<live_vars, audio_rest, hotkey_pressed, model_load_signals, frontmost, dictation_source_app, asr_rest, buf_rest, is_recording,
                   recording_active_event, last_error, request_queue, callbacks,
                   reqlog, buffer, dictation_active, is_transcribing,
                   waiting_for_correction, asr_model_status, model_loaded_handled,
                   last_sound_time, auto_stop_pending, last_transcribed_text,
                   pending_transcription_text, main_queue, timers, review, history,
                   last_inserted_text, activations, auto_stops>>

\* ---- _process_audio_chunk, lines 619-667, called by the capture loop with a
\* chunk whose RMS is rms, while fewer than backlog calls wait for the main thread
ProcessAudioChunkCallback(rms, backlog) ==
    /\ is_recording /\ recording_active_event
    /\ Len(buffer) < MaxBuf
    /\ Len(main_queue) < backlog
    /\ ProcessAudioChunk(1)
    /\ IF dictation_active /\ ~auto_stop_pending
         THEN IF rms > silence_threshold
                THEN /\ last_sound_time' = JustNow
                     /\ UNCHANGED <<auto_stop_pending, main_queue, auto_stops>>
              ELSE IF ~last_sound_time.none /\ last_sound_time.elapsed >= silence_duration
                THEN /\ auto_stop_pending' = TRUE
                     /\ main_queue' = Append(main_queue, CallOf("auto_deactivate"))
                     /\ auto_stops' = auto_stops + 1
                     /\ UNCHANGED last_sound_time
              ELSE UNCHANGED <<last_sound_time, auto_stop_pending, main_queue, auto_stops>>
         ELSE UNCHANGED <<last_sound_time, auto_stop_pending, main_queue, auto_stops>>
    /\ alert' = "None"
    /\ UNCHANGED <<live_vars, audio_rest, hotkey_pressed, model_load_signals, frontmost, dictation_source_app, asr_rest, buf_rest, is_recording,
                   recording_active_event, last_error, request_queue, callbacks,
                   reqlog, dictation_active, is_transcribing, waiting_for_correction,
                   asr_model_status, model_loaded_handled, last_transcribed_text,
                   pending_transcription_text, hotkey_active, hk_pc, timers, review,
                   history, last_inserted_text, activations>>

CaptureDeliversChunk == \E rms \in RmsLevels : ProcessAudioChunkCallback(rms, MaxQueue)

\* one second passes
Tick ==
    /\ ~last_sound_time.none
    /\ last_sound_time.elapsed < silence_duration
    /\ last_sound_time' = [last_sound_time EXCEPT !.elapsed = @ + 1]
    /\ alert' = "None"
    /\ UNCHANGED <<live_vars, audio_rest, hotkey_pressed, model_load_signals, frontmost, dictation_source_app, asr_rest, buf_rest, is_recording,
                   recording_active_event, last_error, request_queue, callbacks,
                   reqlog, buffer, dictation_active, is_transcribing,
                   waiting_for_correction, asr_model_status, model_loaded_handled,
                   auto_stop_pending, last_transcribed_text,
                   pending_transcription_text, hotkey_active, hk_pc, main_queue,
                   timers, review, history, last_inserted_text, activations,
                   auto_stops>>

\* ---- the ASR worker with _handle_asr_service_result as its result_callback
\* (main.py:482). The worker shares only the queue and the callback with the
\* other threads, so a call of the callback is taken together with the worker
\* code that leads to it.
\* the callback runs on the worker thread
WorkerCallsBack(text, error) ==
    LET r == HandleAsrServiceResult(text, error, is_transcribing) IN
      /\ model_loaded_handled' = r.handled
      /\ is_transcribing' = r.is_transcribing
      /\ hotkey_active' = r.hotkey_active
      /\ main_queue' = main_queue \o r.post
      /\ alert' = "None"

\* _initialize_model_on_worker, asr_service.py:42-93 and 180-182: the model
\* loads and the success signal is sent, or the error is sent and the worker returns
WorkerLoadsModel ==
    /\ worker_pc = "init_path"
    /\ Len(main_queue) < MaxQueue
    /\ \/ /\ env.path_ok
          /\ asr_model' = "model"
          /\ is_model_loaded' = TRUE
          /\ worker_pc' = "get"
          /\ WorkerCallsBack(MODEL_LOADED_SUCCESSFULLY, "None")
          /\ model_load_signals' = model_load_signals + 1
       \/ /\ UNCHANGED <<asr_model, is_model_loaded, model_load_signals>>
          /\ worker_pc' = "exited"
          /\ WorkerCallsBack(NoneText, IF env.path_ok THEN "Exception"
                                                      ELSE "FileNotFoundError")
    /\ UNCHANGED <<live_vars, audio_rest, hotkey_pressed, frontmost, dictation_source_app, buf_rest, is_recording, recording_active_event,
                   last_error, request_queue, cur, callbacks, reqlog, shutdown_called,
                   env, buffer, dictation_active, waiting_for_correction,
                   asr_model_status, last_sound_time, auto_stop_pending,
                   last_transcribed_text, pending_transcription_text, hk_pc, timers,
                   review, history, last_inserted_text, activations, auto_stops>>

\* the callback is handed the load signal once more, main.py:694-701; the
\* signal has been sent once before (asr_service.py:85)
MaxSignals == 2

ModelLoadedSignalledAgain ==
    /\ model_load_signals >= 1
    /\ model_load_signals < MaxSignals
    /\ Len(main_queue) < MaxQueue
    /\ WorkerCallsBack(MODEL_LOADED_SUCCESSFULLY, "None")
    /\ model_load_signals' = model_load_signals + 1
    /\ UNCHANGED <<live_vars, audio_vars, asr_vars, buf_vars, hotkey_pressed, frontmost,
                   dictation_source_app, dictation_active, waiting_for_correction,
                   asr_model_status, last_sound_time, auto_stop_pending,
                   last_transcribed_text, pending_transcription_text, hk_pc, timers,
                   review, history, last_inserted_text, activations, auto_stops>>

\* the outcomes of _perform_transcription_on_worker, asr_service.py:104-176
PerformTranscriptionOutcomes(size) ==
    IF ~is_model_loaded \/ asr_model = "None"
      THEN {[text |-> NoneText, error |-> "RuntimeError"]}
    ELSE IF size = 0
      THEN {[text |-> <<>>, error |-> "None"]}
    ELSE {[text |-> NormalizeResult(r), error |-> "None"] : r \in RawResults}
           \cup {[text |-> NoneText, error |-> "Exception"]}

\* one iteration of _asr_worker_loop, asr_service.py:184-198: a request is
\* taken, transcribed, and its outcome handed to the callback
ServeRequest(backlog) ==
    /\ worker_pc = "get"
    /\ request_queue # <<>>
    /\ Head(request_queue) # SHUTDOWN_SENTINEL
    /\ Len(main_queue) < backlog
    /\ request_queue' = Tail(request_queue)
    /\ LET request == Head(request_queue) IN
         \E o \in PerformTranscriptionOutcomes(request.size) :
           /\ cur' = [id |-> request.id, size |-> request.size,
                      text |-> o.text, error |-> o.error]
           /\ WorkerCallsBack(o.text, o.error)
    /\ UNCHANGED <<live_vars, audio_rest, hotkey_pressed, model_load_signals, frontmost, dictation_source_app, buf_rest, is_recording, recording_active_event,
                   last_error, worker_pc, is_model_loaded, asr_model, callbacks,
                   reqlog, shutdown_called, env, buffer, dictation_active,
                   waiting_for_correction, asr_model_status, last_sound_time,
                   auto_stop_pending, last_transcribed_text,
                   pending_transcription_text, hk_pc, timers, review, history,
                   last_inserted_text, activations, auto_stops>>

\* the same, within the bound on waiting calls
WorkerServesRequest == ServeRequest(MaxQueue)

\* ---- toggle_dictation_manual, lines 1267-1294: the "Toggle Dictation" menu
\* item (and the Dock menu, line 1313), clicked on the main thread
ToggleDictationManual ==
    /\ Len(main_queue) < MaxQueue
    /\ IF asr_model_status # "loaded" \/ is_transcribing
         THEN \* lines 1272-1283
              /\ alert' = IF asr_model_status = "error" THEN "ASR Error" ELSE "None"
              /\ UNCHANGED <<hotkey_active, main_queue, activations>>
         ELSE IF dictation_active \/ hotkey_active
         THEN \* lines 1286-1290
              /\ hotkey_active' = TRUE
              /\ main_queue' = Append(main_queue, CallOf("deactivate"))
              /\ alert' = "None"
              /\ UNCHANGED activations
         ELSE \* lines 1291-1294
              /\ activations < MaxCycles
              /\ hotkey_active' = TRUE
              /\ main_queue' = Append(main_queue, CallOf("activate"))
              /\ activations' = activations + 1
              /\ alert' = "None"
    /\ UNCHANGED <<live_vars, audio_rest, hotkey_pressed, model_load_signals, frontmost, dictation_source_app, asr_rest, buf_rest, is_recording,
                   recording_active_event, last_error, request_queue, callbacks,
                   reqlog, buffer, dictation_active, is_transcribing,
                   waiting_for_correction, asr_model_status, model_loaded_handled,
                   last_sound_time, auto_stop_pending, last_transcribed_text,
                   pending_transcription_text, hk_pc, timers, review, history,
                   last_inserted_text, auto_stops>>

\* the user brings another application to the front
FocusChanges ==
    /\ frontmost' \in Apps \ {frontmost}
    /\ alert' = "None"
    /\ UNCHANGED <<live_vars, audio_vars, asr_vars, buf_vars, dictation_active, is_transcribing,
                   waiting_for_correction, asr_model_status, model_loaded_handled,
                   last_sound_time, auto_stop_pending, last_transcribed_text,
                   pending_transcription_text, hotkey_active, hk_pc, main_queue,
                   timers, review, history, last_inserted_text, activations,
                   auto_stops, dictation_source_app, hotkey_pressed,
                   model_load_signals>>

\* ---- the pynput listener path of HotkeyManager, hotkey_manager.py:350-403.
\* self._hotkey is a keyboard.HotKey over the keys of the hotkey string
\* (_configure_hotkey, lines 101-109) whose activation callback is on_press.
\* HotKey is taken as test_hotkey_detection.py:32-60 has it: press() adds the key
\* and calls the callback when every key of the combination is held, release()
\* discards the key. The combination is the default one, settings_manager.py:13,
\* and the keyboard has one more key; a key goes down only when it is up.
\* The cmd/ctrl/alt/shift_pressed flags of lines 353-366 are only printed.
HotkeyKeys == {"cmd", "shift", "d"}
KeyboardKeys == HotkeyKeys \cup {"x"}

\* the same, with the callback invoked for any key of the combination
OnKeyPressWithHotkeyDetectionMutAnyKey(key) ==
    /\ hk_pc = "idle"
    /\ key \notin hotkey_pressed
    /\ hotkey_pressed' = hotkey_pressed \cup {key}
    /\ IF key \in HotkeyKeys
         THEN OnPress(MaxCycles)
         ELSE UNCHANGED <<live_vars, audio_vars, asr_vars, buf_vars, dictation_active,
                          is_transcribing, waiting_for_correction, asr_model_status,
                          model_loaded_handled, last_sound_time, auto_stop_pending,
                          last_transcribed_text, pending_transcription_text,
                          hotkey_active, hk_pc, main_queue, timers, review, history,
                          last_inserted_text, alert, activations, auto_stops,
                          frontmost, dictation_source_app, model_load_signals>>

OnKeyPressWithHotkeyDetection(key) ==
    /\ hk_pc = "idle"
    /\ key \notin hotkey_pressed
    /\ hotkey_pressed' = hotkey_pressed \cup {key}
    /\ IF HotkeyKeys \subseteq hotkey_pressed'
         THEN OnPress(MaxCycles)
         ELSE UNCHANGED <<live_vars, audio_vars, asr_vars, buf_vars, dictation_active,
                          is_transcribing, waiting_for_correction, asr_model_status,
                          model_loaded_handled, last_sound_time, auto_stop_pending,
                          last_transcribed_text, pending_transcription_text,
                          hotkey_active, hk_pc, main_queue, timers, review, history,
                          last_inserted_text, alert, activations, auto_stops,
                          frontmost, dictation_source_app, model_load_signals>>

OnKeyReleaseWithHotkeyDetection(key) ==
    /\ hk_pc = "idle"
    /\ key \in hotkey_pressed
    /\ hotkey_pressed' = hotkey_pressed \ {key}
    /\ UNCHANGED <<live_vars, audio_vars, asr_vars, buf_vars, dictation_active,
                   is_transcribing, waiting_for_correction, asr_model_status,
                   model_loaded_handled, last_sound_time, auto_stop_pending,
                   last_transcribed_text, pending_transcription_text,
                   hotkey_active, hk_pc, main_queue, timers, review, history,
                   last_inserted_text, alert, activations, auto_stops,
                   frontmost, dictation_source_app, model_load_signals>>

\* DictationApp with its hotkey listener, capture thread and ASR worker
InitApp == AppInit /\ AudioInit /\ BufferInit /\ ASRInit /\ env.decoder = "reset" /\ LiveInit
NextApp ==
    \/ ActivateDictationMain \/ DeactivateDictationMain \/ AutoDeactivateDictation
    \/ CreateTimerOnMain \/ ProcessAsrResultOnMainThread \/ CorrectionWindowShow
    \/ DoSend \/ OnCorrectionSend \/ OnCorrectionCancel
    \/ HotkeyOnPress \/ HotkeySetLatch \/ CaptureDeliversChunk \/ Tick
    \/ WorkerLoadsModel \/ WorkerServesRequest
    \/ ToggleDictationManual
SpecApp == InitApp /\ [][NextApp]_vars

\* SpecApp with the scheduling the code relies on: the main thread runs every
\* queued call and fires every started timer, the worker serves every queued
\* request, and the user answers an open review window (Insert or Cancel)
SpecAppFair ==
    /\ SpecApp
    /\ WF_vars(ActivateDictationMain \/ DeactivateDictationMain
                 \/ AutoDeactivateDictation \/ CreateTimerOnMain
                 \/ CorrectionWindowShow \/ OnCorrectionSend)
    /\ WF_vars(ProcessAsrResultOnMainThread)
    /\ WF_vars(WorkerServesRequest)
    /\ WF_vars(DoSend \/ OnCorrectionCancel)

\* the same, with one more dictation cycle
NextAppLong ==
    \/ ActivateDictationMain \/ DeactivateDictationMain \/ AutoDeactivateDictation
    \/ CreateTimerOnMain \/ ProcessAsrResultOnMainThread \/ CorrectionWindowShow
    \/ DoSend \/ OnCorrectionSend \/ OnCorrectionCancel
    \/ HotkeyPressed(MaxCycles + 1) \/ HotkeySetLatch \/ CaptureDeliversChunk \/ Tick
    \/ WorkerLoadsModel \/ WorkerServesRequest
    \/ ToggleDictationManual
SpecAppLong == InitApp /\ [][NextAppLong]_vars

\* ---- _recording_loop, audio_manager.py:69-85 and 109-111, while the controller
\* records: stream.read() raises a device error; the loop records it, clears
\* the event, leaves the read loop and sets _is_recording False in its finally.
\* Nothing is sent to the controller.
CaptureLoopReadError ==
    /\ is_recording /\ recording_active_event
    /\ recording_active_event' = FALSE
    /\ is_recording' = FALSE
    /\ last_error' = "PortAudioError"
    /\ alert' = "None"
    /\ UNCHANGED <<live_vars, audio_rest, hotkey_pressed, model_load_signals, frontmost,
                   dictation_source_app, asr_rest, buf_rest, request_queue,
                   callbacks, reqlog, buffer, dictation_active, is_transcribing,
                   waiting_for_correction, asr_model_status, model_loaded_handled,
                   last_sound_time, auto_stop_pending, last_transcribed_text,
                   pending_transcription_text, hotkey_active, hk_pc, main_queue,
                   timers, review, history, last_inserted_text, activations,
                   auto_stops>>

\* the same as SpecApp, with an input device that can fail during a recording
NextAppDeviceError == NextApp \/ CaptureLoopReadError
SpecAppDeviceError == InitApp /\ [][NextAppDeviceError]_vars

\* the same as SpecApp, with the capture thread and the worker also running
\* while one more call waits for the main thread
NextAppBacklog ==
    \/ NextApp
    \/ \E rms \in RmsLevels : ProcessAudioChunkCallback(rms, MaxQueue + 1)
    \/ ServeRequest(MaxQueue + 1)
SpecAppBacklog == InitApp /\ [][NextAppBacklog]_vars

\* the same as SpecApp, with the user moving between applications
NextAppFocus == NextApp \/ FocusChanges
SpecAppFocus == InitApp /\ [][NextAppFocus]_vars

\* the same as SpecApp, with the load signal delivered more than once
NextAppSignals == NextApp \/ ModelLoadedSignalledAgain
SpecAppSignals == InitApp /\ [][NextAppSignals]_vars

\* HotkeyManager alone: the keyboard listener delivering key events
NextHotkey ==
    \/ \E key \in KeyboardKeys : OnKeyPressWithHotkeyDetection(key)
    \/ \E key \in KeyboardKeys : OnKeyReleaseWithHotkeyDetection(key)
    \/ HotkeySetLatch
SpecHotkey == InitApp /\ [][NextHotkey]_vars

\* ------------------------------------------------------------ specifications

\* the ASR service at rest, for behaviours of the capture manager alone
ASRFrozen ==
    /\ worker_pc = "init_path"
    /\ is_model_loaded = FALSE
    /\ asr_model = "None"
    /\ request_queue = <<>>
    /\ cur = NoCur
    /\ callbacks = <<>>
    /\ reqlog = <<>>
    /\ shutdown_called = FALSE
    /\ env = [path_ok |-> TRUE, decoder |-> "reset"]

\* a step of the capture manager leaves the ASR service alone, and conversely
Audio(A) == A /\ UNCHANGED <<asr_vars, buf_vars, app_vars, live_vars>>
ASR(A) == A /\ UNCHANGED <<audio_vars, buf_vars, app_vars, live_vars>>

\* AudioManager under every sequence of start_recording()/stop_recording() calls
\* of one control thread, with every interleaving of its capture threads
InitAudio == AudioInit /\ ASRFrozen /\ BufferInit /\ AppInit /\ LiveInit
NextAudio ==
    \/ Audio(CallStart) \/ Audio(CallStop)
    \/ Audio(StartCheck) \/ Audio(StartSetEvent) \/ Audio(StartSetFlag) \/ Audio(StartClearError)
    \/ Audio(StartClearReady) \/ Audio(StartSpawn) \/ Audio(StartWait) \/ Audio(StartTimeoutClear)
    \/ Audio(StartTimeoutLock) \/ Audio(StartCheckError) \/ Audio(StartErrorClear) \/ Audio(StartErrorLock)
    \/ Audio(StopCheck) \/ Audio(StopClear) \/ Audio(StopPick) \/ Audio(StopJoin) \/ Audio(StopFinal)
    \/ \E t \in Threads :
         \/ Audio(LoopInit(t)) \/ Audio(LoopOpen(t)) \/ Audio(LoopSetReady(t)) \/ Audio(LoopTest(t))
         \/ Audio(LoopRead(t)) \/ Audio(LoopRecheck(t)) \/ Audio(LoopCallback(t)) \/ Audio(LoopOverflow(t))
         \/ Audio(LoopPaeSet(t)) \/ Audio(LoopPaeBranch(t)) \/ Audio(LoopPaeClear(t)) \/ Audio(LoopExcSet(t))
         \/ Audio(LoopExcClear(t)) \/ Audio(LoopWithExit(t)) \/ Audio(LoopOuterSet(t))
         \/ Audio(LoopOuterReady(t)) \/ Audio(LoopOuterClear(t)) \/ Audio(LoopFinallyReady(t))
         \/ Audio(LoopFinallyFlag(t))
SpecAudio == InitAudio /\ [][NextAudio]_vars

\* ASRService: the worker thread against submit/shutdown calls of the main thread
InitASR == ASRInit /\ AudioInit /\ BufferInit /\ AppInit /\ LiveInit
NextASR ==
    \/ ASR(Submit) \/ ASR(Shutdown)
    \/ ASR(WorkerInitPath) \/ ASR(WorkerRestore) \/ ASR(WorkerSetLoaded) \/ ASR(WorkerWarmup)
    \/ ASR(WorkerSignalLoaded) \/ ASR(WorkerLoadExcept)
    \/ ASR(WorkerGet) \/ ASR(WorkerPerform) \/ ASR(WorkerReset) \/ ASR(WorkerTranscribe)
    \/ ASR(WorkerDeliver) \/ ASR(WorkerSafetyNet)
SpecASR == InitASR /\ [][NextASR]_vars

\* the accumulation buffer: the capture thread appending chunks against a
\* control thread draining, while the worker loads the model (or fails to)
Buf(A) == A /\ UNCHANGED <<audio_vars, worker_pc, is_model_loaded, asr_model,
                            request_queue, cur, callbacks, reqlog, shutdown_called, env,
                            app_vars, live_vars>>
InitBuffer == ASRInit /\ AudioInit /\ BufferInit /\ AppInit /\ LiveInit
NextBuffer ==
    \/ Buf(CaptureChunk) \/ Buf(DrainCall) \/ Buf(DrainTest) \/ Buf(DrainConcat)
    \/ Buf(DrainClear)
    \/ ASR(WorkerInitPath) \/ ASR(WorkerRestore) \/ ASR(WorkerSetLoaded)
    \/ ASR(WorkerWarmup) \/ ASR(WorkerSignalLoaded) \/ ASR(WorkerLoadExcept)
SpecBuffer == InitBuffer /\ [][NextBuffer]_vars

\* LiveTranscriptionService under every sequence of start()/stop() calls, with
\* every interleaving of its preview threads and of the worker loading the model
InitLive == LiveInit /\ ASRInit /\ AudioInit /\ BufferInit /\ AppInit
NextLive ==
    \/ LiveStart \/ LiveStop
    \/ \E t \in 1..MaxPreviews : PreviewLoop(t)
    \/ \E t \in 1..MaxPreviews : RequestPreviewTranscription(t)
    \/ ASR(WorkerInitPath) \/ ASR(WorkerRestore) \/ ASR(WorkerSetLoaded)
    \/ ASR(WorkerWarmup) \/ ASR(WorkerSignalLoaded) \/ ASR(WorkerLoadExcept)
SpecLive == InitLive /\ [][NextLive]_vars

\* ------------------------------------------------------------------ claims

\* capture thread t is in its read loop on an open input stream
InReadLoop(t) == thr[t].pc \in ReadLoopPcs /\ thr[t].stream = "open"

\* the control thread has just returned from start_recording / stop_recording
ReturnedFrom(op) == ctl.pc = "returned" /\ ctl.op = op

\* C1: whenever a stop_recording() call returns, _is_recording is False, whatever
\* the capture thread did (failed, blocked in a read, outlived the 3 s join).
C1_StopLeavesFlagFalse == ReturnedFrom("stop") => ~is_recording

\* C1 witness: a stop_recording() whose join timed out has returned while the
\* capture thread it waited for is still alive.
C1_Witness == ReturnedFrom("stop") /\ ctl.timedout /\ IsAlive(ctl.join)

\* C2: at most one capture-loop thread is in its read loop on an open input
\* stream, in every reachable state.
C2_AtMostOneOpenSession == Cardinality({t \in Threads : InReadLoop(t)}) <= 1

\* C3: a start_recording() called while _is_recording is True, or while a
\* capture thread started by an earlier call is still alive, returns False and
\* leaves the flag, both events, the thread handle, last_error and every capture
\* thread (the running session) exactly as they were.
C3_BusyStartChangesNothing ==
    [][(ctl.pc = "start_check" /\ ctl' # ctl
          /\ (is_recording \/ \E t \in Threads : IsAlive(t)))
        => (/\ ctl'.pc = "returned"
            /\ ctl'.ret = "False"
            /\ UNCHANGED <<is_recording, recording_active_event, stream_ready_event,
                           recording_thread, last_error, lock, thr>>)]_vars

\* C4: when start_recording() returns False after the 2 s wait timed out or after
\* a device error, the session is fully torn down: flag False, event cleared, the
\* session's capture thread finished and its stream not open.
C4_FailedStartFullyTornDown ==
    (ReturnedFrom("start") /\ ctl.why \in {"timeout", "error"})
      => (/\ ~is_recording
          /\ ~recording_active_event
          /\ ~IsAlive(ctl.sess)
          /\ thr[ctl.sess].stream # "open")

\* C5: start_recording() returns True only if the capture loop spawned by that
\* call has opened its stream and that session has recorded no device error.
C5_TrueOnlyIfOwnStreamOpened ==
    [][(ctl.pc = "start_check_error" /\ ctl'.pc = "returned" /\ ctl'.ret = "True")
        => (thr[ctl.sess].opened /\ ~thr[ctl.sess].erred)]_vars

\* C6: if opening the input stream failed, then (once the call has returned and
\* the capture thread has finished, as in the test) start_recording() returned
\* False, last_error is not None and the recording-active event is cleared.
C6_OpenFailureReported ==
    (ReturnedFrom("start") /\ ctl.sess # 0
       /\ thr[ctl.sess].openfail /\ thr[ctl.sess].pc = "done")
      => (ctl.ret = "False" /\ last_error # "None" /\ ~recording_active_event)

\* the result_callback invocations of the worker loop (line 196) for request id
Delivered(id) ==
    \E i \in 1..Len(callbacks) : callbacks[i].id = id /\ callbacks[i].via = "result"

\* the worker is running the decoder reset or the inference of request id
Inferring(id) == worker_pc \in {"reset", "transcribe"} /\ cur.id = id

\* C7: for every zero-length request the outcome the worker delivers is
\* ("", None), and neither the decoder reset nor transcribe runs for it.
C7_EmptyAudioSkipsModel ==
    /\ \A id \in 1..Len(reqlog) :
         reqlog[id].size = 0
           => (reqlog[id].transcribes = 0 /\ reqlog[id].reset = "not_run"
               /\ ~Inferring(id))
    /\ \A i \in 1..Len(callbacks) :
         (callbacks[i].via = "result" /\ reqlog[callbacks[i].id].size = 0)
           => (callbacks[i].text = <<>> /\ callbacks[i].error = "None")

\* C7 witness: the outcome of a zero-length request has been delivered.
C7_Witness ==
    \E id \in 1..Len(reqlog) : reqlog[id].size = 0 /\ Delivered(id)

\* C8: requests are processed in submission order, one at a time: while the
\* worker infers a request, every request submitted before it has had its outcome
\* delivered, and outcomes are delivered in submission order.
C8_FifoOneAtATime ==
    /\ \A id \in 1..Len(reqlog) :
         Inferring(id) => \A j \in 1..(id - 1) : reqlog[j].queued => Delivered(j)
    /\ \A i, k \in 1..Len(callbacks) :
         (i < k /\ callbacks[i].via = "result" /\ callbacks[k].via = "result")
           => callbacks[i].id <= callbacks[k].id

\* C8 witness: the second request is being inferred after the first one's outcome
\* was delivered, both having been queued before the first was taken.
C8_Witness ==
    /\ Len(reqlog) >= 2 /\ Inferring(2) /\ Delivered(1)
    /\ reqlog[1].loading /\ reqlog[2].loading

\* C9: the decoder-reset step runs before every inference of a non-empty
\* request, and a reset that throws does not abort the request: the inference
\* still runs, and when it returns the outcome is delivered as text without error.
C9_ResetFailureDoesNotAbort ==
    /\ \A id \in 1..Len(reqlog) :
         /\ (reqlog[id].transcribes > 0 \/ (worker_pc = "transcribe" /\ cur.id = id))
              => reqlog[id].reset # "not_run"
         /\ reqlog[id].reset = "threw"
              => ((worker_pc = "transcribe" /\ cur.id = id)
                  \/ reqlog[id].transcribes = 1)
    /\ \A i \in 1..Len(callbacks) :
         (callbacks[i].via = "result" /\ reqlog[callbacks[i].id].reset = "threw"
            /\ ~reqlog[callbacks[i].id].tthrew)
           => (callbacks[i].error = "None" /\ callbacks[i].text # NoneText)

\* C9 witness: a request whose decoder reset threw has been transcribed and its
\* outcome delivered without error.
C9_Witness ==
    \E i \in 1..Len(callbacks) :
      /\ callbacks[i].via = "result" /\ callbacks[i].error = "None"
      /\ reqlog[callbacks[i].id].reset = "threw"
      /\ reqlog[callbacks[i].id].transcribes = 1

\* C10: a request accepted while the model was loading has received an outcome by
\* the time the worker has returned (transcribed after Ready, an error after
\* Failed).
C10_LoadingRequestGetsOutcome ==
    worker_pc = "exited"
      => \A id \in 1..Len(reqlog) :
           reqlog[id].loading =>
             \E i \in 1..Len(callbacks) : callbacks[i].id = id

\* the worker is handling the request it dequeued (lines 192-209)
HandlingRequest ==
    worker_pc \in {"perform", "reset", "transcribe", "deliver", "safety_net"}

\* C11: once the model has loaded, no exception raised while a request is handled
\* (decoder reset, inference, outcome delivery) ends the worker thread, and the
\* worker leaves its loop only by dequeuing the shutdown sentinel.
C11_RequestExceptionNeverEndsWorker ==
    [][/\ HandlingRequest => WorkerAlive'
       /\ (worker_pc = "get" /\ ~WorkerAlive')
            => (request_queue # <<>> /\ Head(request_queue) = SHUTDOWN_SENTINEL)]_vars

\* C12: submit_transcription_request() with the worker thread not alive calls the
\* callback at once with a RuntimeError and leaves the queue unchanged; with the
\* worker alive (loading included) it appends the request to the queue and calls
\* no callback.
C12_SubmitDeadOrAlive ==
    [][Len(reqlog') = Len(reqlog) + 1 =>
         LET id == Len(reqlog') IN
           IF WorkerAlive
             THEN /\ request_queue' =
                       Append(request_queue, [id |-> id, size |-> reqlog'[id].size])
                  /\ callbacks' = callbacks
             ELSE /\ request_queue' = request_queue
                  /\ callbacks' =
                       Append(callbacks, Call(id, NoneText, "RuntimeError", "submit"))]_vars

\* C12 witness: one request was queued while the model was still loading, and a
\* later one, submitted after the worker had ended, was answered by the callback.
C12_Witness ==
    /\ \E id \in 1..Len(reqlog) : reqlog[id].loading
    /\ \E i \in 1..Len(callbacks) :
         callbacks[i].via = "submit" /\ callbacks[i].error = "RuntimeError"

\* C13: the buffer is handed back and cleared atomically: whenever no drain is
\* in progress, the chunks returned by the drains so far followed by the chunks
\* still buffered are exactly the chunks process_audio_chunk appended, each once
\* and in order of delivery.
C13_EveryChunkHandedOnceInOrder ==
    drain.pc = "idle" => handed \o buffer = accepted

\* ---- steps of the main thread, recognised by what they take
\* the main thread runs the queued call of fn: the call leaves the queue (the
\* other threads only append to it)
Runs(fn) ==
    /\ Takes(fn)
    /\ main_queue' # main_queue
    /\ Len(main_queue') <= Len(main_queue)

\* a timer fires: _process_asr_result_on_main_thread runs on its payload
TimerFires == timers # <<>> /\ timers' = Tail(timers)

\* this step called AudioManager.start_recording(): the flag was raised, or the
\* call failed and the "Audio Error" alert of line 922 was shown
StartRecordingCalled == (~is_recording /\ is_recording') \/ alert' = "Audio Error"

\* C14: start_recording() is never called while asr_model_status is not
\* "loaded"; an activate processed while the model is initializing or failed
\* leaves dictation_active False; and the status "error" is never left.
C14_NoRecordingUnlessModelLoaded ==
    [][/\ StartRecordingCalled => asr_model_status = "loaded"
       /\ (Runs("activate") /\ asr_model_status # "loaded")
            => (~dictation_active' /\ ~StartRecordingCalled)
       /\ asr_model_status = "error" => asr_model_status' = "error"]_vars

\* C14 witness: after the load failed, an activate has just been refused with
\* the "ASR Error" alert.
C14_Witness ==
    /\ asr_model_status = "error"
    /\ activations >= 1 /\ main_queue = <<>>
    /\ alert = "ASR Error"
    /\ ~dictation_active /\ ~is_recording

\* C15: a transcription outcome whose text is character for character the
\* previously inserted text never opens the review window and leads to no
\* insertion and no history entry; the cycle ends in Idle.
C15_IdenticalToInsertedIsNoOp ==
    [][(/\ TimerFires
        /\ Head(timers).type = ASR_CALLBACK_TYPE_TRANSCRIPTION
        /\ Head(timers).error = "None"
        /\ last_inserted_text # NoneText
        /\ Head(timers).text = last_inserted_text)
         => (/\ main_queue' = main_queue
             /\ review' = review
             /\ history' = history
             /\ last_inserted_text' = last_inserted_text
             /\ Idle')]_vars

\* C16: within one recording the auto-stop is triggered (the pending flag set
\* and _auto_deactivate_dictation scheduled) at most once; auto_stops counts
\* the triggers since the activation that started the recording.
C16_OneAutoStopPerRecording == auto_stops <= 1

\* the capture thread delivers one chunk to _process_audio_chunk
ChunkDelivered == Len(buffer') = Len(buffer) + 1

\* C17: the silence timer is armed at activation (the time of the last sound is
\* the activation time, nothing pending); while no auto-stop was triggered in
\* this recording, a chunk at or below the threshold that arrives
\* silence_duration or more after the last sound or the activation sets the
\* pending flag and schedules _auto_deactivate_dictation; that call, made while
\* dictation is active and nothing is being transcribed, schedules the
\* deactivation, which stops the capture and submits the buffered audio.
C17_SilenceTimerArmedAtActivation ==
    [][/\ (Runs("activate") /\ ~dictation_active /\ dictation_active')
            => (/\ last_sound_time' = [none |-> FALSE, elapsed |-> 0]
                /\ ~auto_stop_pending'
                /\ buffer' = <<>>)
       /\ (/\ ChunkDelivered
           /\ dictation_active
           /\ auto_stops = 0
           /\ ~last_sound_time.none
           /\ last_sound_time.elapsed >= silence_duration
           /\ last_sound_time' = last_sound_time)
            => (/\ auto_stop_pending'
                /\ main_queue' = Append(main_queue, CallOf("auto_deactivate")))
       /\ (Runs("auto_deactivate") /\ dictation_active /\ ~is_transcribing)
            => main_queue' = Append(Tail(main_queue), CallOf("deactivate"))
       /\ (Runs("deactivate") /\ dictation_active /\ ~is_transcribing)
            => (/\ ~is_recording' /\ ~recording_active_event'
                /\ ~dictation_active'
                /\ buffer' = <<>>
                /\ buffer # <<>>
                     => (/\ request_queue' = Append(request_queue,
                                    [id |-> activations, size |-> Len(buffer)])
                         /\ is_transcribing'))]_vars

\* C17 witness: one activation, the auto-stop triggered, and the recording
\* stopped and its audio queued for the worker with the latch as the auto-stop
\* left it.
C17_Witness ==
    /\ activations = 1 /\ auto_stops = 1
    /\ hk_pc = "idle" /\ hotkey_active
    /\ ~dictation_active /\ ~is_recording /\ is_transcribing
    /\ request_queue # <<>>
    /\ main_queue = <<>>

\* the worker takes a request off the queue and hands its outcome (cur') to the
\* result callback
WorkerServes == request_queue # <<>> /\ request_queue' = Tail(request_queue)

\* the text is None, empty, or made of spaces only
BlankText(text) == text = NoneText \/ \A i \in 1..Len(text) : text[i] = " "

\* C18: a transcription outcome with no error whose text is None, empty or
\* whitespace only posts nothing to the main thread (so no review window and no
\* alert can follow from it), raises no alert, and leaves the controller in
\* Idle with is_transcribing False.
C18_BlankOutcomeEndsCycleSilently ==
    [][(WorkerServes /\ cur'.error = "None" /\ BlankText(cur'.text))
         => (/\ main_queue' = main_queue
             /\ timers' = timers
             /\ review' = review
             /\ alert' = "None"
             /\ ~is_transcribing'
             /\ Idle')]_vars

\* C18 witness: the worker has delivered a whitespace-only text without error
\* and the controller is idle, no review open.
C18_Witness ==
    /\ cur.id >= 1 /\ cur.error = "None"
    /\ cur.text # <<>> /\ BlankText(cur.text)
    /\ Idle /\ ~review.visible /\ main_queue = <<>> /\ timers = <<>>

\* C19: when the review is committed with (original, edited), the history
\* gains exactly one entry, at its front, with original_text = original,
\* corrected_text = edited when it differs from original (None otherwise) and
\* discarded = False; the controller is Idle, the capture manager is not
\* recording and the hotkey latch is cleared, whatever the insertion did.
C19_CommitRecordsOnceAndEndsIdle ==
    [][Runs("send") =>
         LET original == review.original_text
             edited == Head(main_queue).text
         IN  /\ history' = <<[original_text |-> original,
                              corrected_text |-> IF edited # original THEN edited
                                                 ELSE NoneText,
                              discarded |-> FALSE]>> \o history
             /\ Idle'
             /\ ~is_recording' /\ ~recording_active_event'
             /\ ~hotkey_active']_vars

\* C19 witness: an edited text was committed and recorded while nothing was
\* typed (the insertion was skipped, failed or threw), and the cycle is over.
C19_Witness ==
    /\ history # <<>>
    /\ history[1].corrected_text = <<"b">> /\ ~history[1].discarded
    /\ last_inserted_text = NoneText
    /\ last_transcribed_text = <<"b">>
    /\ Idle /\ ~is_recording /\ ~hotkey_active

\* the user discards the review: the window closes and nothing is queued
ReviewDiscarded == review.visible /\ ~review'.visible /\ main_queue' = main_queue

\* C20: when the review is discarded, the text that was handed to the review
\* window is recorded in the history exactly once, at the front, with
\* discarded = True and no corrected text; nothing is inserted, the
\* pending-text slot is cleared and the controller is Idle.
C20_DiscardRecordsTextAndEndsIdle ==
    [][ReviewDiscarded =>
         (/\ history' = <<[original_text |-> review.original_text,
                           corrected_text |-> NoneText,
                           discarded |-> TRUE]>> \o history
          /\ last_inserted_text' = last_inserted_text
          /\ pending_transcription_text' = NoneText
          /\ Idle')]_vars

\* C20 witness: a review was discarded: its text is the newest history entry,
\* flagged discarded, nothing was ever typed, and the cycle is over.
C20_Witness ==
    /\ history # <<>>
    /\ history[1].discarded
    /\ history[1].original_text = review.original_text
    /\ ~review.visible
    /\ last_inserted_text = NoneText
    /\ pending_transcription_text = NoneText
    /\ Idle

\* a path that ends a dictation cycle is taken: the review is committed or
\* discarded, a transcription error reaches the main thread, or the worker
\* hands a blank result to the callback
CycleEnds ==
    \/ Runs("send")
    \/ ReviewDiscarded
    \/ /\ TimerFires
       /\ Head(timers).type = ASR_CALLBACK_TYPE_TRANSCRIPTION
       /\ Head(timers).error # "None"
    \/ /\ WorkerServes
       /\ cur'.error = "None"
       /\ BlankText(cur'.text)

\* C21: every path that ends a dictation cycle (insert, discard, transcription
\* error, blank result) leaves dictation_active, is_transcribing and
\* _waiting_for_correction False, AudioManager._is_recording False and the
\* hotkey latch False.
C21_EveryEndingPathCleansUp ==
    [][CycleEnds =>
         (/\ ~dictation_active' /\ ~is_transcribing' /\ ~waiting_for_correction'
          /\ ~is_recording'
          /\ ~hotkey_active')]_vars

\* C21 witness: a transcription error has just ended a cycle that the
\* auto-stop (which sets the latch) had stopped, and everything is cleared.
C21_Witness ==
    /\ alert = "Transcription Failed"
    /\ auto_stops >= 1
    /\ ~dictation_active /\ ~is_transcribing /\ ~waiting_for_correction
    /\ ~is_recording /\ ~hotkey_active

\* C22: an activate processed while the capture manager reports an active
\* stream (_is_recording True) is refused outright: start_recording() is not
\* called, dictation_active is unchanged and the audio buffer is not cleared.
C22_BusyActivateRefusedOutright ==
    [][(Runs("activate") /\ is_recording)
         => (/\ ~StartRecordingCalled
             /\ is_recording' /\ recording_active_event' = recording_active_event
             /\ dictation_active' = dictation_active
             /\ buffer' = buffer)]_vars

\* C22 witness: a second activate was processed while the first one's recording
\* was running with audio buffered: the recording goes on, the buffer is kept,
\* and the refusal has reset the latch.
C22_Witness ==
    /\ activations = 2
    /\ main_queue = <<>> /\ hk_pc = "idle"
    /\ is_recording /\ dictation_active
    /\ buffer # <<>>
    /\ ~hotkey_active
    /\ request_queue = <<>> /\ cur = NoCur

\* C23: the source-application handle changes only when an activate is
\* processed with no cycle in progress, and is then the application in front;
\* no other event touches it before the commit or discard, and the commit gives
\* the focus back to that application before the text is typed.
C23_SourceAppCarriedUntouched ==
    [][/\ dictation_source_app' # dictation_source_app
            => (/\ Runs("activate")
                /\ ~dictation_active /\ ~is_transcribing /\ ~waiting_for_correction
                /\ dictation_source_app' = frontmost)
       /\ Runs("send")
            => (/\ dictation_source_app # "None"
                /\ frontmost' = dictation_source_app)]_vars

\* C23 witness: a commit is about to be processed; the user has meanwhile
\* moved to another application, and the handle still holds the one captured
\* at activation.
C23_Witness ==
    /\ Takes("send")
    /\ waiting_for_correction
    /\ dictation_source_app = "app1"
    /\ frontmost = "app2"

\* a step of a thread other than the main thread: the ASR worker (loading the
\* model or serving a request), the capture thread delivering a chunk, or the
\* key-listener thread inside on_press
OffMainThread ==
    \/ WorkerServes
    \/ worker_pc' # worker_pc
    \/ ChunkDelivered
    \/ hk_pc' # hk_pc

\* C24: every write to the lifecycle state (dictation_active, is_transcribing,
\* _waiting_for_correction, _auto_stop_pending, the hotkey latch) is made on
\* the main thread: a step of the hotkey, capture or worker thread leaves all
\* five unchanged.
C24_LifecycleWrittenOnMainOnly ==
    [][OffMainThread =>
         UNCHANGED <<dictation_active, is_transcribing, waiting_for_correction,
                     auto_stop_pending, hotkey_active>>]_vars

\* C25: a transcription outcome that carries an error is not treated as a blank
\* result, blank though its text is: the callback leaves is_transcribing alone
\* and forwards it to the main thread as a transcription-type result; when its
\* timer fires, the "Transcription Failed" alert is raised, no review is
\* opened, and is_transcribing and dictation_active are reset to False.
C25_ErrorOutcomeIsNotBlank ==
    [][/\ (WorkerServes /\ cur'.error # "None")
            => (/\ BlankText(cur'.text)
                /\ main_queue' = Append(main_queue,
                                        [fn |-> "create_timer",
                                         type |-> ASR_CALLBACK_TYPE_TRANSCRIPTION,
                                         status |-> "none",
                                         text |-> cur'.text,
                                         error |-> cur'.error])
                /\ is_transcribing' = is_transcribing)
       /\ (/\ TimerFires
           /\ Head(timers).type = ASR_CALLBACK_TYPE_TRANSCRIPTION
           /\ Head(timers).error # "None")
            => (/\ alert' = "Transcription Failed"
                /\ main_queue' = main_queue
                /\ review' = review
                /\ ~waiting_for_correction'
                /\ ~is_transcribing'
                /\ ~dictation_active')]_vars

\* C25 witness: the worker's last outcome was an error with no text, and its
\* alert has just been raised with the cycle over.
C25_Witness ==
    /\ cur.id >= 1 /\ cur.error # "None" /\ cur.text = NoneText
    /\ alert = "Transcription Failed"
    /\ timers = <<>> /\ main_queue = <<>>
    /\ ~review.visible
    /\ Idle


\* C26: the key event that completes the hotkey combination (not every key was
\* held, every key is) invokes exactly one callback, on_activate when the latch
\* was False and on_deactivate when it was True, and on_press then writes the
\* flipped latch before the next key event is handled; a key press that leaves
\* the combination incomplete, and every key release, invoke no callback and
\* leave the latch alone.
C26_CompletePressTogglesOnce ==
    [][LET CombinationCompleted ==
               /\ ~(HotkeyKeys \subseteq hotkey_pressed)
               /\ HotkeyKeys \subseteq hotkey_pressed'
           OtherKeyEvent ==
               /\ hotkey_pressed' # hotkey_pressed
               /\ ~(HotkeyKeys \subseteq hotkey_pressed')
       IN
       /\ CombinationCompleted =>
            /\ main_queue' = Append(main_queue,
                   CallOf(IF hotkey_active THEN "deactivate" ELSE "activate"))
            /\ hk_pc' = IF hotkey_active THEN "set_false" ELSE "set_true"
            /\ hotkey_active' = hotkey_active
       /\ hk_pc # "idle" =>
            /\ hotkey_active' = (hk_pc = "set_true")
            /\ hk_pc' = "idle"
            /\ main_queue' = main_queue
            /\ hotkey_pressed' = hotkey_pressed
       /\ OtherKeyEvent =>
            /\ main_queue' = main_queue
            /\ hotkey_active' = hotkey_active
            /\ hk_pc' = hk_pc]_vars

\* the combination was pressed, released and pressed again: on_activate and then
\* on_deactivate were invoked, and the latch is False again
C26_Witness ==
    /\ main_queue = <<CallOf("activate"), CallOf("deactivate")>>
    /\ hk_pc = "idle" /\ ~hotkey_active
    /\ hotkey_pressed = HotkeyKeys

\* C27: the load-success signal takes effect once: counting the callback that
\* has set asr_model_status to "loaded" and those still waiting for the main
\* thread to do so, there is never more than one; and a
\* MODEL_LOADED_SUCCESSFULLY signal delivered when one has already been handled
\* schedules nothing and leaves the status, the handled flag, the lifecycle
\* flags and the latch as they were.
C27_LoadSignalTakesEffectOnce ==
    [][LET Loaded(q) == Cardinality({i \in DOMAIN q : q[i].status = "loaded"})
       IN
       /\ Loaded(main_queue') + Loaded(timers')
            + (IF asr_model_status' = "loaded" THEN 1 ELSE 0) <= 1
       /\ (model_load_signals' > model_load_signals /\ model_loaded_handled) =>
            /\ main_queue' = main_queue /\ timers' = timers
            /\ asr_model_status' = asr_model_status
            /\ model_loaded_handled' = model_loaded_handled
            /\ UNCHANGED <<dictation_active, is_transcribing, waiting_for_correction,
                           hotkey_active, last_transcribed_text,
                           pending_transcription_text, review, history>>]_vars

\* the signal has been delivered twice, the first has set the status on the
\* main thread, and nothing is waiting for the main thread
C27_Witness ==
    /\ model_load_signals = 2
    /\ asr_model_status = "loaded" /\ model_loaded_handled
    /\ main_queue = <<>> /\ timers = <<>>


\* submit_transcription_request() was called: a request was queued, or refused
\* by a worker that is not alive
SubmitCalled == request_queue' # request_queue \/ callbacks' # callbacks

\* C28: an activate processed while is_transcribing or dictation_active is True,
\* and a deactivate processed while dictation_active is False, call neither
\* start_recording() nor submit_transcription_request() and leave
\* dictation_active, is_transcribing and _waiting_for_correction unchanged.
C28_ReentrantSignalIgnored ==
    [][(\/ Runs("activate") /\ (is_transcribing \/ dictation_active)
        \/ Runs("deactivate") /\ ~dictation_active)
         => (/\ ~StartRecordingCalled
             /\ ~SubmitCalled
             /\ dictation_active' = dictation_active
             /\ is_transcribing' = is_transcribing
             /\ waiting_for_correction' = waiting_for_correction)]_vars

\* the request of the first cycle is still waiting for the worker, and a second
\* activate, requested after it was submitted, has been processed: the
\* transcription goes on and no recording has started
C28_Witness ==
    /\ is_transcribing /\ ~dictation_active /\ ~is_recording
    /\ Len(request_queue) = 1 /\ request_queue[1].id = 1
    /\ activations = 2
    /\ main_queue = <<>> /\ hk_pc = "idle"


\* C29: shutdown() on a live worker appends the sentinel behind every request
\* in the queue, and on a worker that is not alive leaves the queue alone; and
\* when a worker ends with the sentinel queued, the outcome of every request
\* that was queued before the sentinel has been delivered.
C29_ShutdownDrainsThenWorkerExits ==
    [][LET SentinelAt(k) == request_queue[k] = SHUTDOWN_SENTINEL
           SentinelQueued == \E k \in DOMAIN request_queue : SentinelAt(k)
           BehindSentinel(id) ==
               \E k, i \in DOMAIN request_queue :
                  k < i /\ SentinelAt(k) /\ request_queue[i].id = id
       IN
       /\ (~shutdown_called /\ shutdown_called') =>
            request_queue' = IF WorkerAlive
                               THEN Append(request_queue, SHUTDOWN_SENTINEL)
                               ELSE request_queue
       /\ (SentinelQueued /\ WorkerAlive /\ ~WorkerAlive') =>
            \A id \in 1..Len(reqlog) :
               (reqlog[id].queued /\ ~BehindSentinel(id)) => Delivered(id)]_vars

C31_DeactivateStopsThenSubmitsOrIdles ==
    [][(Runs("deactivate") /\ dictation_active /\ ~is_transcribing)
         => (/\ ~is_recording' /\ ~recording_active_event'
             /\ ~dictation_active'
             /\ buffer' = <<>>
             /\ IF buffer # <<>>
                  THEN /\ request_queue' = Append(request_queue,
                              [id |-> activations, size |-> Len(buffer)])
                       /\ is_transcribing'
                  ELSE /\ request_queue' = request_queue
                       /\ callbacks' = callbacks
                       /\ ~is_transcribing' /\ ~waiting_for_correction'
                       /\ ~hotkey_active')]_vars

\* the deactivate of the first recording has been processed with a full buffer:
\* the capture is stopped, the buffer is empty, and the one request holding all
\* of it waits for the worker with is_transcribing set
C31_Witness ==
    /\ is_transcribing /\ ~dictation_active /\ ~is_recording
    /\ buffer = <<>>
    /\ request_queue = <<[id |-> 1, size |-> MaxBuf]>>
    /\ main_queue = <<>>


\* C32: once a deactivate has submitted a request (is_transcribing set), the
\* controller eventually is Idle again, with is_transcribing and
\* _waiting_for_correction both False, provided the worker serves the request,
\* the main thread runs what is queued for it and an open review is answered:
\* from every state, a state with both flags False is eventually reached.
C32_SubmittedRequestEndsIdle ==
    []<>(~is_transcribing /\ ~waiting_for_correction)

\* a request has been served and everything it led to has run: nothing is
\* queued, no timer is pending, no review is open, and the controller is Idle
C32_Witness ==
    /\ cur # NoCur
    /\ ~is_transcribing /\ ~waiting_for_correction /\ ~dictation_active
    /\ request_queue = <<>> /\ main_queue = <<>> /\ timers = <<>>
    /\ ~review.visible


\* C33: the model state resolves once: is_model_loaded, once True, never returns
\* to False, and a step that sends the load-success signal leaves it True
C33_ModelStateResolvesOnce ==
    [][/\ is_model_loaded => is_model_loaded'
       /\ (/\ Len(callbacks') = Len(callbacks) + 1
           /\ callbacks'[Len(callbacks')].text = MODEL_LOADED_SUCCESSFULLY)
            => is_model_loaded']_vars


\* C34: dictation_active and is_transcribing are never both True, and
\* _waiting_for_correction is True only with is_transcribing True and
\* dictation_active False
C34_FlagsExclusive ==
    /\ ~(dictation_active /\ is_transcribing)
    /\ waiting_for_correction => (is_transcribing /\ ~dictation_active)


\* the review is open on a transcription: _waiting_for_correction and
\* is_transcribing are True, dictation_active is False
C34_Witness ==
    /\ waiting_for_correction /\ is_transcribing /\ ~dictation_active
    /\ review.visible


\* C35: at most one request of the controller is outstanding: a submission
\* happens only with is_transcribing False and nothing queued, it ends the
\* recording it belongs to, and is_transcribing is cleared only once the
\* submitted request has left the queue with its outcome delivered
C35_OneOutstandingRequest ==
    [][LET Submits == \/ Len(request_queue') > Len(request_queue)
                      \/ Len(callbacks') > Len(callbacks)
       IN  /\ Len(request_queue') <= 1
           /\ Submits => /\ ~is_transcribing
                         /\ request_queue = <<>>
                         /\ dictation_active /\ ~dictation_active'
           /\ (is_transcribing /\ ~is_transcribing')
                => (request_queue' = <<>> /\ cur' # NoCur)]_vars

\* the request of a later recording is the only one queued, after an earlier
\* recording's request has been served
C35_Witness ==
    /\ is_transcribing
    /\ Len(request_queue) = 1
    /\ cur # NoCur /\ cur.id < request_queue[1].id

\* C36: an _auto_deactivate_dictation scheduled during an earlier recording has
\* no effect on the current one: when it runs with no auto-stop triggered
\* since the activation that started the current recording, it requests no
\* deactivation and leaves the hotkey latch alone
C36_StaleAutoStopHasNoEffect ==
    [][(Runs("auto_deactivate") /\ dictation_active /\ auto_stops = 0)
         => (/\ main_queue' = Tail(main_queue)
             /\ hotkey_active' = hotkey_active)]_vars

\* C37: while the controller is in Recording (dictation_active True) the capture
\* manager is active: _is_recording is True and the capture loop's event is set
C37_RecordingImpliesCaptureActive ==
    dictation_active => (is_recording /\ recording_active_event)

\* C38: an activate refused because the model is not ready leaves the latch
\* False once on_press and the activation handler have both finished: with
\* the model not loaded, no press in progress and no activation queued,
\* hotkey_active is False
C38_RefusedActivateLeavesLatchClear ==
    (/\ asr_model_status # "loaded"
     /\ hk_pc = "idle"
     /\ \A i \in 1..Len(main_queue) : main_queue[i].fn # "activate")
      => ~hotkey_active

\* C39: at most one preview-loop thread is running: no two threads wait in
\* _preview_loop for their next round
C39_OnePreviewLoop ==
    Cardinality({t \in 1..MaxPreviews : preview_pc[t] = "wait"}) <= 1

====
